---- MODULE Spec2Model ----
(***************************************************************************)
(* Model of the socket-to-api bridge: the connection registry              *)
(* (ConnectionManager), the per-socket handler of the TCP server, the work *)
(* repository on the staging table, the job processor and the worker pool. *)
(*                                                                         *)
(* Granularity: one action per critical section or blocking call.  A Go    *)
(* method that takes cm.mu once is one action; SendData, which looks the   *)
(* socket up under RLock, updates the stats under Lock, writes outside any *)
(* lock and evicts under a second Lock, is four.  Every repository call is *)
(* one auto-committed SQL statement and so one action.                     *)
(***************************************************************************)
EXTENDS Integers, Sequences, FiniteSets, TLC

(* ---------------------------- bounds ----------------------------------- *)
\* client sockets the listener may ever accept
MaxSocks == 2
\* distinct remote ports (the registry key is the port alone)
MaxPorts == 2
\* goroutines that call SendData (the pool's workers)
PoolSize == 2
\* logical clock range for time.Now()
MaxTime == 1

\* rows the producer may ever stage
MaxRows == 1
\* polling drivers (callers of FetchPendingRequests)
NumDrivers == 2
\* FetchPendingRequests calls explored
MaxPolls == 2
\* worker.queue_size, scaled down
QueueSize == 1
\* the limit passed to FetchPendingRequests
BatchSize == 2
\* MAX_RETRIES, the retry ceiling of a staged row, scaled down
MaxRetries == 1

RowIds == 1..MaxRows
Drivers == 1..NumDrivers
Socks == 1..MaxSocks
Ports == 1..MaxPorts
Workers == 1..PoolSize

\* server.max_connections, scaled down
MaxConnections == 1
\* maxIdleTime of the cleanup routine, in clock ticks
MaxIdleTime == 0

NoSock == 0
NoJob == 0

\* largest api.max_retries and api.retry_delay a Client is configured with
MaxApiRetries == 3
MaxRetryDelay == 3

\* MaxMessageSize (10 MB in the code), scaled down
MaxMessageSize == 2
\* frames a client may ever write to its socket
MaxFrames == 2

VARIABLES
  connections,  \* cm.connections : port -> socket
  connInfo,     \* cm.connInfo    : port -> [sent, recv, last]
  sockPort,     \* remote port of each accepted socket (0 before accept)
  sockState,    \* "unborn" | "open" | "closed"
  hpc,          \* position of the socket's handleConnection goroutine
  written,      \* frames successfully written to each socket
  now,          \* time.Now()
  srvCtx,       \* TCPServer.ctx cancelled
  listenerOpen, \* TCPServer.listener not yet closed
  spc,          \* position of TCPServer.Stop
  apc,          \* acceptConnections goroutine: "run" | "exited"
  cpc,          \* cleanupRoutine goroutine: "run" | "exited"
  wpc,          \* position of each worker goroutine
  wport,        \* SendData's port argument
  wconn,        \* the handle SendData obtained from GetConnection
  wret,         \* SendData's result: "none" | "ok" | "missing" | "writefailed"
  wjob,         \* the row id the worker is processing (NoJob outside Process)
  writeFailed,  \* history: sockets on which a SendData write has failed
  rows,         \* the staging table: id -> [st, retry, err, port, data]
  rowLock,      \* row locks held by a running SELECT ... FOR UPDATE (0 = none)
  responses,    \* the response table: request_id -> number of ResponseRecords
  dpc,          \* position of each polling driver
  batch,        \* the rows the driver's last FetchPendingRequests returned
  polls,        \* number of FetchPendingRequests calls so far
  dret,         \* the driver's last Submit result
  jobs,         \* Pool.jobs, the buffered channel (row ids)
  jobsClosed,   \* close(p.jobs) has run
  poolCtx,      \* Pool.ctx cancelled
  results,      \* number of results buffered in Pool.results
  resultsClosed,\* close(p.results) has run
  rhpc,         \* resultHandler goroutine: "run" | "exited"
  ppc,          \* position of Pool.Stop
  wexp,         \* the job context's PROCESS_TIMEOUT deadline has expired
  wmarked,      \* history: this Process run moved the row to sending
  wentry,       \* history: the row's retry_count when Process began
  wsucc,        \* result.Success of the Process run
  dbFaults,     \* environment: statements may fail on a database error
  owed,         \* history: jobs accepted before Pool.Stop and not yet dequeued
  inbuf,        \* bytes the client has sent that the server has not read yet
  rcur,         \* bytes the running DecodeMessage call has read so far
  cframes,      \* history: the frames the client has written, in order
  dispatched,   \* history: the messages the read loop has dispatched
  codecIn,      \* the arguments of the codec call under test
  codecOut,     \* the result of the codec call under test
  timedOut,     \* history: the handler's read deadline has expired
  wmsg,         \* the WriteMessage call under test and the bytes on its wire
  client        \* the Client.SendRequest call under test

regVars == <<connections, connInfo>>
sockVars == <<sockPort, sockState, hpc, written>>
srvVars == <<srvCtx, listenerOpen, spc, apc, cpc>>
sendVars == <<wpc, wport, wconn, wret, wjob, writeFailed>>
netVars == <<regVars, sockVars, now, srvVars>>
dbVars == <<rows, rowLock, responses, dbFaults>>
drvVars == <<dpc, batch, polls, dret>>
poolVars == <<jobs, jobsClosed, poolCtx, results, resultsClosed, rhpc, ppc, owed>>
procVars == <<wexp, wmarked, wentry, wsucc>>
pipeVars == <<dbVars, drvVars, poolVars, procVars>>
readVars == <<inbuf, rcur, cframes, dispatched>>
codecVars == <<codecIn, codecOut>>
callVars == <<wmsg, client>>
frameVars == <<readVars, timedOut, codecVars, callVars>>
vars == <<connections, connInfo, sockPort, sockState, hpc, written, now,
          srvCtx, listenerOpen, spc, apc, cpc,
          wpc, wport, wconn, wret, wjob, writeFailed,
          rows, rowLock, responses, dpc, batch, polls, dret,
          jobs, jobsClosed, poolCtx, results, resultsClosed, rhpc, ppc,
          wexp, wmarked, wentry, wsucc, dbFaults, owed,
          inbuf, rcur, cframes, dispatched, codecIn, codecOut,
          timedOut, wmsg, client>>

\* a staging-table slot no row has been inserted into yet
NoRow == [st |-> "none", retry |-> 0, err |-> FALSE, port |-> 0, data |-> "none"]

(* ------------------------ ConnectionManager ---------------------------- *)
\* the map without the key
MapDelete(m, k) == [q \in (DOMAIN m) \ {k} |-> m[q]]
\* the map with m[k] = v
MapPut(m, k, v) == [q \in (DOMAIN m) \cup {k} |-> IF q = k THEN v ELSE m[q]]
EmptyMap == [q \in {} |-> 0]

\* mutant: Register without the duplicate check (it overwrites the entry)
RegisterExists_Never(port) == FALSE

\* Register's duplicate check
RegisterExists(port) == port \in DOMAIN connections

\* Register's insertion (the maps after a successful Register)
RegisterInsert(port, conn) ==
  /\ connections' = MapPut(connections, port, conn)
  /\ connInfo' = MapPut(connInfo, port, [sent |-> 0, recv |-> 0, last |-> now])

\* sockets closed by s.Close(); closing twice is harmless
CloseSocks(S) == [s \in Socks |-> IF s \in S THEN "closed" ELSE sockState[s]]

\* mutant: Unregister that forgets delete(cm.connInfo, port)
Unregister_KeepInfo(port) ==
  IF port \in DOMAIN connections
    THEN /\ sockState' = CloseSocks({connections[port]})
         /\ connections' = MapDelete(connections, port)
         /\ UNCHANGED connInfo
    ELSE UNCHANGED <<sockState, connections, connInfo>>

\* an Unregister that runs its close and deletes without the exists test:
\* on a missing port it drops every entry
Unregister_NoExistsTest(port) ==
  IF port \in DOMAIN connections
    THEN /\ sockState' = CloseSocks({connections[port]})
         /\ connections' = MapDelete(connections, port)
         /\ connInfo' = MapDelete(connInfo, port)
    ELSE /\ connections' = EmptyMap
         /\ connInfo' = EmptyMap
         /\ UNCHANGED sockState

\* mutant: Unregister that closes and removes every entry, as CloseAll does
Unregister_Everything(port) ==
  /\ sockState' = CloseSocks({connections[q] : q \in DOMAIN connections})
  /\ connections' = EmptyMap
  /\ connInfo' = EmptyMap

\* Unregister(port): under cm.mu.Lock, close and delete if present
Unregister(port) ==
  IF port \in DOMAIN connections
    THEN /\ sockState' = CloseSocks({connections[port]})
         /\ connections' = MapDelete(connections, port)
         /\ connInfo' = MapDelete(connInfo, port)
    ELSE UNCHANGED <<sockState, connections, connInfo>>

\* mutant: a lookup that ignores the key and returns the socket of the lowest
\* registered port
GetConnection_AnyPort(port) ==
  IF connections = << >> THEN NoSock
  ELSE connections[CHOOSE q \in DOMAIN connections : \A r \in DOMAIN connections : q <= r]

\* GetConnection(port): the handle, or NoSock when the port is missing
GetConnection(port) ==
  IF port \in DOMAIN connections THEN connections[port] ELSE NoSock

\* Count()
Count == Cardinality(DOMAIN connections)

\* a sweep that also evicts an entry idle for exactly maxIdleTime
StalePorts_Inclusive ==
  {p \in DOMAIN connInfo :
     now - connInfo[p].last >= MaxIdleTime /\ p \in DOMAIN connections}

\* the ports CleanupStaleConnections evicts
StalePorts ==
  {p \in DOMAIN connInfo :
     now - connInfo[p].last > MaxIdleTime /\ p \in DOMAIN connections}


(* --------------------------- TCP server -------------------------------- *)
\* acceptConnections: Accept, then the connection-limit check; the socket is
\* closed when the limit is reached, else a handler goroutine is started
AcceptConn(s, p) ==
  /\ apc = "run" /\ listenerOpen
  /\ sockState[s] = "unborn"
  /\ \A t \in Socks : t < s => sockState[t] # "unborn"
  /\ sockPort' = [sockPort EXCEPT ![s] = p]
  /\ IF Count >= MaxConnections
       THEN /\ sockState' = [sockState EXCEPT ![s] = "closed"]
            /\ UNCHANGED hpc
       ELSE /\ sockState' = [sockState EXCEPT ![s] = "open"]
            /\ hpc' = [hpc EXCEPT ![s] = "register"]
  /\ UNCHANGED <<regVars, written, now, srvVars, sendVars, pipeVars>>
  /\ UNCHANGED frameVars

\* acceptConnections returns once the context is cancelled
AcceptorExit ==
  /\ apc = "run" /\ srvCtx
  /\ apc' = "exited"
  /\ UNCHANGED <<regVars, sockVars, now, srvCtx, listenerOpen, spc, cpc,
                 sendVars, pipeVars>>
  /\ UNCHANGED frameVars

\* handleConnection: Register(clientPort, conn); on error return, which runs
\* only the deferred conn.Close() (Unregister is deferred after Register)
HandlerRegister(s) ==
  /\ hpc[s] = "register"
  /\ IF RegisterExists(sockPort[s])
       THEN /\ hpc' = [hpc EXCEPT ![s] = "regfail"]
            /\ UNCHANGED regVars
       ELSE /\ RegisterInsert(sockPort[s], s)
            /\ hpc' = [hpc EXCEPT ![s] = "loop"]
  /\ UNCHANGED <<sockPort, sockState, written, now, srvVars, sendVars, pipeVars>>
  /\ UNCHANGED frameVars

\* read loop: the context is cancelled, return
HandlerShutdown(s) ==
  /\ hpc[s] = "loop" /\ srvCtx
  /\ hpc' = [hpc EXCEPT ![s] = "unregister"]
  /\ UNCHANGED <<regVars, sockPort, sockState, written, now, srvVars,
                 sendVars, pipeVars>>
  /\ UNCHANGED frameVars

\* read loop: ReadMessage fails with a non-timeout error (the peer closed, or
\* the socket was closed locally by Unregister, CloseAll or the sweeper)
HandlerReadError(s) ==
  /\ hpc[s] = "loop"
  /\ hpc' = [hpc EXCEPT ![s] = "unregister"]
  /\ UNCHANGED <<regVars, sockPort, sockState, written, now, srvVars,
                 sendVars, pipeVars>>
  /\ UNCHANGED frameVars

\* the deferred s.connMgr.Unregister(clientPort)
HandlerUnregister(s) ==
  /\ hpc[s] = "unregister"
  /\ Unregister(sockPort[s])
  /\ hpc' = [hpc EXCEPT ![s] = "close"]
  /\ UNCHANGED <<sockPort, written, now, srvVars, sendVars, pipeVars>>
  /\ UNCHANGED frameVars

\* the deferred conn.Close() and s.wg.Done(), after the deferred Unregister
\* ("close") or straight after a failed Register ("regfail")
HandlerClose(s) ==
  /\ hpc[s] \in {"close", "regfail"}
  /\ sockState' = CloseSocks({s})
  /\ hpc' = [hpc EXCEPT ![s] = "done"]
  /\ UNCHANGED <<regVars, sockPort, written, now, srvVars, sendVars, pipeVars>>
  /\ UNCHANGED frameVars

\* cleanupRoutine's tick: CleanupStaleConnections(maxIdleTime)
CleanupStaleConnections ==
  /\ cpc = "run"
  /\ sockState' = CloseSocks({connections[p] : p \in StalePorts})
  /\ connections' = [q \in (DOMAIN connections) \ StalePorts |-> connections[q]]
  /\ connInfo' = [q \in (DOMAIN connInfo) \ StalePorts |-> connInfo[q]]
  /\ UNCHANGED <<sockPort, hpc, written, now, srvVars, sendVars, pipeVars>>
  /\ UNCHANGED frameVars

\* cleanupRoutine returns once the context is cancelled
CleanupExit ==
  /\ cpc = "run" /\ srvCtx
  /\ cpc' = "exited"
  /\ UNCHANGED <<regVars, sockVars, now, srvCtx, listenerOpen, spc, apc,
                 sendVars, pipeVars>>
  /\ UNCHANGED frameVars

\* time passes
Tick ==
  /\ now < MaxTime
  /\ now' = now + 1
  /\ UNCHANGED <<regVars, sockVars, srvVars, sendVars, pipeVars>>
  /\ UNCHANGED frameVars

\* TCPServer.Stop: s.cancel()
SrvStopCancel ==
  /\ spc = "run"
  /\ srvCtx' = TRUE
  /\ spc' = "cancelled"
  /\ UNCHANGED <<regVars, sockVars, now, listenerOpen, apc, cpc, sendVars, pipeVars>>
  /\ UNCHANGED frameVars

\* TCPServer.Stop: s.listener.Close()
SrvStopCloseListener ==
  /\ spc = "cancelled"
  /\ listenerOpen' = FALSE
  /\ spc' = "lclosed"
  /\ UNCHANGED <<regVars, sockVars, now, srvCtx, apc, cpc, sendVars, pipeVars>>
  /\ UNCHANGED frameVars

\* TCPServer.Stop: s.connMgr.CloseAll()
SrvStopCloseAll ==
  /\ spc = "lclosed"
  /\ sockState' = CloseSocks({connections[p] : p \in DOMAIN connections})
  /\ connections' = EmptyMap
  /\ connInfo' = EmptyMap
  /\ spc' = "wait"
  /\ UNCHANGED <<sockPort, hpc, written, now, srvCtx, listenerOpen, apc, cpc,
                 sendVars, pipeVars>>
  /\ UNCHANGED frameVars

\* mutant: Stop that returns without s.wg.Wait()
SrvStopReturn_NoWait ==
  /\ spc = "wait"
  /\ spc' = "returned"
  /\ UNCHANGED <<regVars, sockVars, now, srvCtx, listenerOpen, apc, cpc,
                 sendVars, pipeVars>>
  /\ UNCHANGED frameVars

\* TCPServer.Stop: s.wg.Wait() returns
SrvStopReturn ==
  /\ spc = "wait"
  /\ apc = "exited" /\ cpc = "exited"
  /\ \A s \in Socks : hpc[s] \in {"none", "done"}
  /\ spc' = "returned"
  /\ UNCHANGED <<regVars, sockVars, now, srvCtx, listenerOpen, apc, cpc,
                 sendVars, pipeVars>>
  /\ UNCHANGED frameVars

(* ------------------------------ SendData ------------------------------- *)
\* mutant: Process that goes on to steps 9 and 10 whatever SendData returned
AfterSend_AlwaysOk(w, ret) == IF wjob[w] = NoJob THEN "sd_done" ELSE "p9"

\* where the caller continues once SendData has returned: Process goes on to
\* step 9 on success and to handleError otherwise (processor.go 114-118); a
\* direct caller just holds the result
AfterSend(w, ret) ==
  IF wjob[w] = NoJob THEN "sd_done" ELSE IF ret = "ok" THEN "p9" ELSE "he_mark"

\* a goroutine calls SendData(port, frame); in the registry's specification
\* each goroutine makes one call
CallSendData(w, p) ==
  /\ wpc[w] = "idle" /\ wjob[w] = NoJob
  /\ wpc' = [wpc EXCEPT ![w] = "sd_get"]
  /\ wport' = [wport EXCEPT ![w] = p]
  /\ wconn' = [wconn EXCEPT ![w] = NoSock]
  /\ wret' = [wret EXCEPT ![w] = "none"]
  /\ UNCHANGED <<regVars, sockVars, now, srvVars, wjob, writeFailed, pipeVars>>
  /\ UNCHANGED frameVars

\* SendData: conn, exists := cm.GetConnection(port)
SendLookup(w) ==
  /\ wpc[w] = "sd_get"
  /\ IF GetConnection(wport[w]) = NoSock
       THEN /\ wret' = [wret EXCEPT ![w] = "missing"]
            /\ wpc' = [wpc EXCEPT ![w] = AfterSend(w, "missing")]
            /\ UNCHANGED wconn
       ELSE /\ wconn' = [wconn EXCEPT ![w] = GetConnection(wport[w])]
            /\ wpc' = [wpc EXCEPT ![w] = "sd_stats"]
            /\ UNCHANGED wret
  /\ UNCHANGED <<regVars, sockVars, now, srvVars, wport, wjob, writeFailed, pipeVars>>
  /\ UNCHANGED frameVars

\* SendData: the stats update under cm.mu.Lock
SendStats(w) ==
  /\ wpc[w] = "sd_stats"
  /\ IF wport[w] \in DOMAIN connInfo
       THEN connInfo' = [connInfo EXCEPT ![wport[w]] =
                           [@ EXCEPT !.sent = @ + 1, !.last = now]]
       ELSE UNCHANGED connInfo
  /\ wpc' = [wpc EXCEPT ![w] = "sd_write"]
  /\ UNCHANGED <<connections, sockVars, now, srvVars, wport, wconn, wret, wjob,
                 writeFailed, pipeVars>>
  /\ UNCHANGED frameVars

\* SendData: conn.Write(data), outside any lock.  A write on a socket closed
\* locally fails; a write on an open socket succeeds or fails (peer gone).
SendWrite(w) ==
  /\ wpc[w] = "sd_write"
  /\ \/ /\ sockState[wconn[w]] = "open"
        /\ written' = [written EXCEPT ![wconn[w]] =
                         Append(@, [type |-> "response", job |-> wjob[w]])]
        /\ wret' = [wret EXCEPT ![w] = "ok"]
        /\ wpc' = [wpc EXCEPT ![w] = AfterSend(w, "ok")]
        /\ UNCHANGED writeFailed
     \/ /\ writeFailed' = writeFailed \cup {wconn[w]}
        /\ wpc' = [wpc EXCEPT ![w] = "sd_evict"]
        /\ UNCHANGED <<written, wret>>
  /\ UNCHANGED <<regVars, sockPort, sockState, hpc, now, srvVars, wport, wconn,
                 wjob, pipeVars>>
  /\ UNCHANGED frameVars

\* mutant: SendData that returns the write error without evicting
SendEvict_NoEvict(w) ==
  /\ wpc[w] = "sd_evict"
  /\ wret' = [wret EXCEPT ![w] = "writefailed"]
  /\ wpc' = [wpc EXCEPT ![w] = AfterSend(w, "writefailed")]
  /\ UNCHANGED <<regVars, sockVars, now, srvVars, wport, wconn, wjob,
                 writeFailed, pipeVars>>
  /\ UNCHANGED frameVars

\* SendData: cm.Unregister(port) after the failed write, then the error return
SendEvict(w) ==
  /\ wpc[w] = "sd_evict"
  /\ Unregister(wport[w])
  /\ wret' = [wret EXCEPT ![w] = "writefailed"]
  /\ wpc' = [wpc EXCEPT ![w] = AfterSend(w, "writefailed")]
  /\ UNCHANGED <<sockPort, hpc, written, now, srvVars, wport, wconn, wjob,
                 writeFailed, pipeVars>>
  /\ UNCHANGED frameVars


(* --------------------------- work repository --------------------------- *)
\* the kinds of binary_data a row can carry: "good" passes validation and
\* conversion, "empty" fails ValidateBinaryData
DataKinds == {"good", "empty"}

\* the row is in the staging table
RowExists(r) == rows[r].st \notin {"none", "deleted"}

\* the set S as an ascending sequence (ORDER BY created_at: ids are assigned
\* in insertion order)
RECURSIVE SortedSeq(_)
SortedSeq(S) ==
  IF S = {} THEN <<>>
  ELSE LET m == CHOOSE x \in S : \A y \in S : x <= y
       IN <<m>> \o SortedSeq(S \ {m})

\* the elements of a sequence
Range(q) == {q[i] : i \in 1..Len(q)}

\* FetchPendingRequests' WHERE clause with SKIP LOCKED: pending rows no other
\* running statement has locked
Claimable == {r \in RowIds : rows[r].st = "pending" /\ rowLock[r] = 0}

\* FETCH FIRST n ROWS ONLY, in created_at order
FirstRows(S, n) == {r \in S : Cardinality({q \in S : q < r}) < n}

\* UpdateRequestStatus: UPDATE ... SET status, updated_at, last_error WHERE id;
\* an UPDATE that matches no row is no error and changes nothing
UpdateRequestStatus(r, status, hasErr) ==
  IF RowExists(r)
    THEN [rows EXCEPT ![r].st = status, ![r].err = hasErr]
    ELSE rows

\* mutant: an increment_retry that counts down
IncrementRetryCount_Down(r) ==
  IF RowExists(r) THEN [rows EXCEPT ![r].retry = @ - 1] ELSE rows

\* IncrementRetryCount: UPDATE ... SET retry_count = retry_count + 1 WHERE id
IncrementRetryCount(r) ==
  IF RowExists(r) THEN [rows EXCEPT ![r].retry = @ + 1] ELSE rows

\* InsertRequest: a new pending row with retry_count 0 and no last_error
InsertRequest(p, k) ==
  /\ \E r \in RowIds :
       /\ rows[r].st = "none"
       /\ \A q \in RowIds : q < r => rows[q].st # "none"
       /\ rows' = [rows EXCEPT ![r] = [st |-> "pending", retry |-> 0,
                                       err |-> FALSE, port |-> p, data |-> k]]
  /\ UNCHANGED <<netVars, sendVars, rowLock, responses, dbFaults, drvVars,
                 poolVars, procVars>>
  /\ UNCHANGED frameVars

\* FetchPendingRequests, the statement running: SELECT ... WHERE status =
\* 'pending' ORDER BY created_at FETCH FIRST :limit ROWS ONLY FOR UPDATE SKIP
\* LOCKED, through sql.DB.QueryContext (no transaction is ever begun)
FetchPendingRequests(d) ==
  /\ dpc[d] = "idle"
  /\ polls < MaxPolls
  /\ polls' = polls + 1
  /\ LET sel == FirstRows(Claimable, BatchSize)
     IN /\ rowLock' = [r \in RowIds |-> IF r \in sel THEN d ELSE rowLock[r]]
        /\ batch' = [batch EXCEPT ![d] = SortedSeq(sel)]
  /\ dpc' = [dpc EXCEPT ![d] = "fetch"]
  /\ UNCHANGED <<netVars, sendVars, rows, responses, dbFaults, dret, poolVars,
                 procVars>>
  /\ UNCHANGED frameVars

\* FetchPendingRequests returns: rows.Close() ends the statement; outside a
\* transaction the statement is committed on its own, which releases the
\* row locks while the rows still have status pending
FetchReturn(d) ==
  /\ dpc[d] = "fetch"
  /\ rowLock' = [r \in RowIds |-> IF rowLock[r] = d THEN 0 ELSE rowLock[r]]
  /\ dpc' = [dpc EXCEPT ![d] = IF batch[d] = <<>> THEN "idle" ELSE "submit"]
  /\ UNCHANGED <<netVars, sendVars, rows, responses, dbFaults, batch, polls, dret,
                 poolVars, procVars>>
  /\ UNCHANGED frameVars

(* ------------------------------ worker pool ---------------------------- *)
\* mutant: Submit on a queue without a capacity, which never reports it full
Submit_Unbounded(d, job) ==
  \/ /\ ~jobsClosed
     /\ jobs' = Append(jobs, job)
     /\ owed' = IF ppc = "run" THEN owed + 1 ELSE owed
     /\ dret' = [dret EXCEPT ![d] = "nil"]
  \/ /\ jobsClosed
     /\ dret' = [dret EXCEPT ![d] = "panic"]
     /\ UNCHANGED <<jobs, owed>>

\* Pool.Submit(job): select { case p.jobs <- job; case <-p.ctx.Done();
\* default }.  A send on the closed channel panics.
Submit(d, job) ==
  \/ /\ ~jobsClosed /\ Len(jobs) < QueueSize
     /\ jobs' = Append(jobs, job)
     /\ owed' = IF ppc = "run" THEN owed + 1 ELSE owed
     /\ dret' = [dret EXCEPT ![d] = "nil"]
  \/ /\ jobsClosed
     /\ dret' = [dret EXCEPT ![d] = "panic"]
     /\ UNCHANGED <<jobs, owed>>
  \/ /\ poolCtx
     /\ dret' = [dret EXCEPT ![d] = "canceled"]
     /\ UNCHANGED <<jobs, owed>>
  \/ /\ ~jobsClosed /\ Len(jobs) >= QueueSize /\ ~poolCtx
     /\ dret' = [dret EXCEPT ![d] = "queuefull"]
     /\ UNCHANGED <<jobs, owed>>

\* the polling driver hands the next fetched row to Submit; on an error it
\* gives up the rest of the batch (the rows stay in the table as they are)
DriverSubmit(d) ==
  /\ dpc[d] = "submit" /\ batch[d] # <<>>
  /\ Submit(d, Head(batch[d]))
  /\ batch' = [batch EXCEPT ![d] = IF dret'[d] = "nil" THEN Tail(@) ELSE <<>>]
  /\ dpc' = [dpc EXCEPT ![d] =
               IF dret'[d] = "panic" THEN "panicked"
               ELSE IF batch'[d] = <<>> THEN "idle" ELSE "submit"]
  /\ UNCHANGED <<netVars, sendVars, dbVars, polls, jobsClosed, poolCtx, results,
                 resultsClosed, rhpc, ppc, procVars>>
  /\ UNCHANGED frameVars

\* the job's context is done: the pool context is cancelled or the
\* PROCESS_TIMEOUT deadline has expired
CtxDone(w) == poolCtx \/ wexp[w]

\* mutant: a worker that reads the head of the queue without removing it
WorkerDequeue_Peek(w) ==
  /\ wpc[w] = "idle"
  /\ jobs # <<>>
  /\ wjob' = [wjob EXCEPT ![w] = Head(jobs)]
  /\ wpc' = [wpc EXCEPT ![w] = "p1"]
  /\ UNCHANGED <<netVars, wport, wconn, wret, writeFailed, dbVars, drvVars,
                 poolVars, procVars>>
  /\ UNCHANGED frameVars

\* Pool.worker: a job is received from p.jobs and processJob starts
WorkerDequeue(w) ==
  /\ wpc[w] = "idle"
  /\ jobs # <<>>
  /\ wjob' = [wjob EXCEPT ![w] = Head(jobs)]
  /\ jobs' = Tail(jobs)
  /\ owed' = IF owed > 0 THEN owed - 1 ELSE 0
  /\ wpc' = [wpc EXCEPT ![w] = "p1"]
  /\ UNCHANGED <<netVars, wport, wconn, wret, writeFailed, dbVars, drvVars,
                 jobsClosed, poolCtx, results, resultsClosed, rhpc, ppc, procVars>>
  /\ UNCHANGED frameVars

\* Pool.worker: case <-p.ctx.Done(): return
WorkerExitCtx(w) ==
  /\ wpc[w] = "idle" /\ poolCtx
  /\ wpc' = [wpc EXCEPT ![w] = "exited"]
  /\ UNCHANGED <<netVars, wport, wconn, wret, wjob, writeFailed, pipeVars>>
  /\ UNCHANGED frameVars

\* Pool.worker: the job channel is closed and drained: return
WorkerExitClosed(w) ==
  /\ wpc[w] = "idle" /\ jobsClosed /\ jobs = <<>>
  /\ wpc' = [wpc EXCEPT ![w] = "exited"]
  /\ UNCHANGED <<netVars, wport, wconn, wret, wjob, writeFailed, pipeVars>>
  /\ UNCHANGED frameVars

\* the positions inside Processor.Process
ProcessPcs ==
  {"p1", "p4", "p6", "sd_get", "sd_stats", "sd_write", "sd_evict",
   "p9", "p10", "he_mark", "he_incr"}

\* the job's PROCESS_TIMEOUT deadline expires while Process runs
JobTimeout(w) ==
  /\ wpc[w] \in ProcessPcs /\ ~wexp[w]
  /\ wexp' = [wexp EXCEPT ![w] = TRUE]
  /\ UNCHANGED <<netVars, sendVars, dbVars, drvVars, poolVars, wmarked, wentry, wsucc>>
  /\ UNCHANGED frameVars

\* mutant: processJob that sends its result without the ctx.Done case
WorkerEmit_NoCtx(w) ==
  /\ wpc[w] = "emit"
  /\ results < QueueSize
  /\ results' = results + 1
  /\ wpc' = [wpc EXCEPT ![w] = "idle"]
  /\ wjob' = [wjob EXCEPT ![w] = NoJob]
  /\ wport' = [wport EXCEPT ![w] = 1]
  /\ wconn' = [wconn EXCEPT ![w] = NoSock]
  /\ wret' = [wret EXCEPT ![w] = "none"]
  /\ wexp' = [wexp EXCEPT ![w] = FALSE]
  /\ wmarked' = [wmarked EXCEPT ![w] = FALSE]
  /\ wentry' = [wentry EXCEPT ![w] = 0]
  /\ wsucc' = [wsucc EXCEPT ![w] = FALSE]
  /\ UNCHANGED <<netVars, writeFailed, dbVars, drvVars, jobs, jobsClosed, poolCtx,
                 resultsClosed, rhpc, ppc, owed>>
  /\ UNCHANGED frameVars

\* processJob after Process returned: select { case p.results <- result;
\* case <-p.ctx.Done() }, then back to the worker loop
WorkerEmit(w) ==
  /\ wpc[w] = "emit"
  /\ \/ /\ results < QueueSize
        /\ results' = results + 1
     \/ /\ poolCtx
        /\ UNCHANGED results
  /\ wpc' = [wpc EXCEPT ![w] = "idle"]
  /\ wjob' = [wjob EXCEPT ![w] = NoJob]
  /\ wport' = [wport EXCEPT ![w] = 1]
  /\ wconn' = [wconn EXCEPT ![w] = NoSock]
  /\ wret' = [wret EXCEPT ![w] = "none"]
  /\ wexp' = [wexp EXCEPT ![w] = FALSE]
  /\ wmarked' = [wmarked EXCEPT ![w] = FALSE]
  /\ wentry' = [wentry EXCEPT ![w] = 0]
  /\ wsucc' = [wsucc EXCEPT ![w] = FALSE]
  /\ UNCHANGED <<netVars, writeFailed, dbVars, drvVars, jobs, jobsClosed, poolCtx,
                 resultsClosed, rhpc, ppc, owed>>
  /\ UNCHANGED frameVars

\* Pool.resultHandler: a result is received and logged
ResultHandle ==
  /\ rhpc = "run" /\ results > 0
  /\ results' = results - 1
  /\ UNCHANGED <<netVars, sendVars, dbVars, drvVars, jobs, jobsClosed, poolCtx,
                 resultsClosed, rhpc, ppc, owed, procVars>>
  /\ UNCHANGED frameVars

\* Pool.resultHandler: case <-p.ctx.Done(): return
ResultHandlerExit ==
  /\ rhpc = "run" /\ poolCtx
  /\ rhpc' = "exited"
  /\ UNCHANGED <<netVars, sendVars, dbVars, drvVars, jobs, jobsClosed, poolCtx,
                 results, resultsClosed, ppc, owed, procVars>>
  /\ UNCHANGED frameVars

\* Pool.Stop: p.cancel()
PoolStopCancel ==
  /\ ppc = "run"
  /\ poolCtx' = TRUE
  /\ ppc' = "cancelled"
  /\ UNCHANGED <<netVars, sendVars, dbVars, drvVars, jobs, jobsClosed, results,
                 resultsClosed, rhpc, owed, procVars>>
  /\ UNCHANGED frameVars

\* Pool.Stop: close(p.jobs)
PoolStopClose ==
  /\ ppc = "cancelled"
  /\ jobsClosed' = TRUE
  /\ ppc' = "wait"
  /\ UNCHANGED <<netVars, sendVars, dbVars, drvVars, jobs, poolCtx, results,
                 resultsClosed, rhpc, owed, procVars>>
  /\ UNCHANGED frameVars

\* Pool.Stop: p.wg.Wait() returns, close(p.results), return
PoolStopReturn ==
  /\ ppc = "wait"
  /\ \A w \in Workers : wpc[w] = "exited"
  /\ rhpc = "exited"
  /\ resultsClosed' = TRUE
  /\ ppc' = "returned"
  /\ UNCHANGED <<netVars, sendVars, dbVars, drvVars, jobs, jobsClosed, poolCtx,
                 results, rhpc, owed, procVars>>
  /\ UNCHANGED frameVars


(* ------------------------------ processor ------------------------------ *)
\* what a Process step leaves unchanged besides the worker's position and
\* the staging table
ProcFrame == <<netVars, wport, wconn, wret, wjob, writeFailed, rowLock,
               dbFaults, drvVars, poolVars, wexp>>

\* a repository statement of worker w fails: its context is done (ExecContext
\* returns the context's error), the database refuses the statement, or a
\* database error occurs
StatementFails(w, allowed) == CtxDone(w) \/ ~allowed \/ dbFaults

\* steps 1 to 3: MarkAsSending, then ValidateBinaryData and
\* BinaryToAPIRequest on the job's data (both local)
ProcMarkSending(w) ==
  /\ wpc[w] = "p1"
  /\ wentry' = [wentry EXCEPT ![w] = rows[wjob[w]].retry]
  /\ \/ /\ ~CtxDone(w)
        /\ rows' = UpdateRequestStatus(wjob[w], "sending", FALSE)
        /\ wmarked' = [wmarked EXCEPT ![w] = RowExists(wjob[w])]
        /\ wpc' = [wpc EXCEPT ![w] =
                     IF rows[wjob[w]].data = "good" THEN "p4" ELSE "he_mark"]
     \/ /\ wpc' = [wpc EXCEPT ![w] = "he_mark"]
        /\ StatementFails(w, TRUE)
        /\ UNCHANGED <<rows, wmarked>>
  /\ UNCHANGED <<ProcFrame, responses, wsucc>>
  /\ UNCHANGED frameVars

\* steps 4 and 5: apiClient.SendRequest, then ValidateAPIResponse.  The call
\* fails when the context is done, when every attempt failed, or returns a
\* reply that fails validation
ProcSendRequest(w) ==
  /\ wpc[w] = "p4"
  /\ \/ /\ ~CtxDone(w)
        /\ wpc' = [wpc EXCEPT ![w] = "p6"]
     \/ wpc' = [wpc EXCEPT ![w] = "he_mark"]
  /\ UNCHANGED <<ProcFrame, rows, responses, wmarked, wentry, wsucc>>
  /\ UNCHANGED frameVars

\* a processor that treats an error of steps 6, 9, 10 like any other error
AfterStorage_FailurePath(next, failed) == IF failed THEN "he_mark" ELSE next

\* steps 6, 9, 10: the statement's error is logged and Process goes on to
\* the same next step as after a success
AfterStorage(next, failed) == next

\* steps 6 and 7 and the start of step 8: InsertAPIResponse (an error is
\* logged and processing continues; request_id references the staging table,
\* so the insert needs the row), APIResponseToBinary and EncodeMessage (both
\* local), then the call of connMgr.SendData(request.ClientPort, message)
ProcInsertResponse(w) ==
  /\ wpc[w] = "p6"
  /\ \/ /\ ~CtxDone(w) /\ RowExists(wjob[w])
        /\ responses' = [responses EXCEPT ![wjob[w]] = @ + 1]
        /\ wpc' = [wpc EXCEPT ![w] = AfterStorage("sd_get", FALSE)]
     \/ /\ StatementFails(w, RowExists(wjob[w]))
        /\ UNCHANGED responses
        /\ wpc' = [wpc EXCEPT ![w] = AfterStorage("sd_get", TRUE)]
  /\ wport' = [wport EXCEPT ![w] = rows[wjob[w]].port]
  /\ UNCHANGED <<netVars, wconn, wret, wjob, writeFailed, rows, rowLock,
                 dbFaults, drvVars, poolVars, procVars>>
  /\ UNCHANGED frameVars

\* step 9: MarkAsComplete; an error is logged and processing continues
ProcMarkComplete(w) ==
  /\ wpc[w] = "p9"
  /\ \/ /\ ~CtxDone(w)
        /\ rows' = UpdateRequestStatus(wjob[w], "complete", FALSE)
        /\ wpc' = [wpc EXCEPT ![w] = AfterStorage("p10", FALSE)]
     \/ /\ StatementFails(w, TRUE)
        /\ UNCHANGED rows
        /\ wpc' = [wpc EXCEPT ![w] = AfterStorage("p10", TRUE)]
  /\ UNCHANGED <<ProcFrame, responses, wmarked, wentry, wsucc>>
  /\ UNCHANGED frameVars

\* the DELETE of DeleteProcessedRequest succeeds: the row is there and no
\* ResponseRecord references it (api_responses.request_id is a foreign key)
DeleteAllowed(r) == RowExists(r) /\ responses[r] = 0

\* step 10: DeleteProcessedRequest; an error is logged; result.Success = true
ProcDelete(w) ==
  /\ wpc[w] = "p10"
  /\ \/ /\ ~CtxDone(w) /\ DeleteAllowed(wjob[w])
        /\ rows' = [rows EXCEPT ![wjob[w]].st = "deleted"]
        /\ wpc' = [wpc EXCEPT ![w] = AfterStorage("emit", FALSE)]
     \/ /\ StatementFails(w, DeleteAllowed(wjob[w]))
        /\ UNCHANGED rows
        /\ wpc' = [wpc EXCEPT ![w] = AfterStorage("emit", TRUE)]
  /\ wsucc' = [wsucc EXCEPT ![w] = TRUE]
  /\ UNCHANGED <<ProcFrame, responses, wmarked, wentry>>
  /\ UNCHANGED frameVars

\* handleError: MarkAsFailed(ctx, id, msg) with the job's own context; an
\* error is only logged
HandleErrorMark(w) ==
  /\ wpc[w] = "he_mark"
  /\ \/ /\ ~CtxDone(w)
        /\ rows' = UpdateRequestStatus(wjob[w], "failed", TRUE)
     \/ /\ StatementFails(w, TRUE)
        /\ UNCHANGED rows
  /\ wpc' = [wpc EXCEPT ![w] = "he_incr"]
  /\ UNCHANGED <<ProcFrame, responses, wmarked, wentry, wsucc>>
  /\ UNCHANGED frameVars

\* handleError: IncrementRetryCount(ctx, id); an error is only logged; then
\* Process returns the failed result
HandleErrorIncr(w) ==
  /\ wpc[w] = "he_incr"
  /\ \/ /\ ~CtxDone(w)
        /\ rows' = IncrementRetryCount(wjob[w])
     \/ /\ StatementFails(w, TRUE)
        /\ UNCHANGED rows
  /\ wsucc' = [wsucc EXCEPT ![w] = FALSE]
  /\ wpc' = [wpc EXCEPT ![w] = "emit"]
  /\ UNCHANGED <<ProcFrame, responses, wmarked, wentry>>
  /\ UNCHANGED frameVars

(* ------------------------------ protocol ------------------------------- *)
HeaderSize == 8
ProtocolVersion == 1
MessageTypeRequest == 1
MessageTypeResponse == 2
MessageTypeError == 3
MessageTypePing == 4
MessageTypePong == 5
MessageTypes == {MessageTypeRequest, MessageTypeResponse, MessageTypeError,
                 MessageTypePing, MessageTypePong}

\* the four bytes of n, least significant first
PutUint32_LittleEndian(n) ==
  <<n % 256, (n \div 256) % 256, (n \div 65536) % 256, (n \div 16777216) % 256>>

\* binary.BigEndian.PutUint32: the four bytes of n, most significant first
PutUint32(n) ==
  <<(n \div 16777216) % 256, (n \div 65536) % 256, (n \div 256) % 256, n % 256>>

\* binary.BigEndian.Uint32: the number four bytes stand for
Uint32(b) == b[1] * 16777216 + b[2] * 65536 + b[3] * 256 + b[4]

\* the Message no successful DecodeMessage has filled in
NoMsg == [version |-> 0, type |-> 0, length |-> 0, data |-> <<>>, dataNil |-> TRUE]

\* EncodeMessage(msgType, data): the frame bytes, or the size error
EncodeMessage(msgType, data) ==
  IF Len(data) > MaxMessageSize
    THEN [err |-> "size", bytes |-> <<>>]
    ELSE [err |-> "none",
          bytes |-> <<ProtocolVersion, msgType>> \o PutUint32(Len(data))
                      \o <<0, 0>> \o data]

\* a reader that makes the payload buffer and fills it before it looks at
\* the size limit
DecodeMessage_ReadFirst(in) ==
  IF Len(in) < HeaderSize
    THEN [err |-> "header", read |-> Len(in), alloc |-> 0, msg |-> NoMsg]
    ELSE LET length == Uint32(SubSeq(in, 3, 6))
         IN IF in[1] # ProtocolVersion
              THEN [err |-> "version", read |-> HeaderSize, alloc |-> 0,
                    msg |-> NoMsg]
            ELSE IF Len(in) - HeaderSize < length
              THEN [err |-> "data", read |-> Len(in), alloc |-> length,
                    msg |-> NoMsg]
            ELSE IF length > MaxMessageSize
              THEN [err |-> "size", read |-> HeaderSize + length,
                    alloc |-> length, msg |-> NoMsg]
            ELSE [err |-> "none", read |-> HeaderSize + length,
                  alloc |-> length,
                  msg |-> [version |-> in[1], type |-> in[2],
                           length |-> length,
                           data |-> SubSeq(in, HeaderSize + 1, HeaderSize + length),
                           dataNil |-> length = 0]]

\* DecodeMessage(reader) on a reader that yields the bytes in and then fails
\* (end of stream or deadline).  read counts the bytes taken from the reader,
\* alloc the size of the payload buffer made; Data stays nil for Length 0
DecodeMessage(in) ==
  IF Len(in) < HeaderSize
    THEN [err |-> "header", read |-> Len(in), alloc |-> 0, msg |-> NoMsg]
    ELSE LET length == Uint32(SubSeq(in, 3, 6))
         IN IF in[1] # ProtocolVersion
              THEN [err |-> "version", read |-> HeaderSize, alloc |-> 0,
                    msg |-> NoMsg]
            ELSE IF length > MaxMessageSize
              THEN [err |-> "size", read |-> HeaderSize, alloc |-> 0,
                    msg |-> NoMsg]
            ELSE IF length = 0
              THEN [err |-> "none", read |-> HeaderSize, alloc |-> 0,
                    msg |-> [version |-> in[1], type |-> in[2], length |-> 0,
                             data |-> <<>>, dataNil |-> TRUE]]
            ELSE IF Len(in) - HeaderSize < length
              THEN [err |-> "data", read |-> Len(in), alloc |-> length,
                    msg |-> NoMsg]
            ELSE [err |-> "none", read |-> HeaderSize + length,
                  alloc |-> length,
                  msg |-> [version |-> in[1], type |-> in[2],
                           length |-> length,
                           data |-> SubSeq(in, HeaderSize + 1, HeaderSize + length),
                           dataNil |-> FALSE]]

\* the values a byte of a generated input takes
SomeBytes == {0, 1, 255}

\* byte sequences of length at most n over SomeBytes
BytesUpTo(n) == UNION {[1..k -> SomeBytes] : k \in 0..n}

\* the first k bytes of b
Take(b, k) == SubSeq(b, 1, IF k < Len(b) THEN k ELSE Len(b))

\* the results of calls that were not made
NoEnc == [err |-> "none", bytes |-> <<>>]
NoDec == [err |-> "none", read |-> 0, alloc |-> 0, msg |-> NoMsg]
NoCall == [op |-> "none", t |-> 0, p |-> <<>>, bytes |-> <<>>]

\* the streams handed to DecodeMessage: any version, type and length field,
\* any payload, cut anywhere
DecodeInputs ==
  {Take(<<v, ty, 0, l2, l1, l0, 0, 0>> \o p, k) :
     v \in {0, ProtocolVersion, 2}, ty \in {MessageTypeRequest, MessageTypePing},
     l2 \in {0, 1}, l1 \in {0, 1}, l0 \in 0..(MaxMessageSize + 1),
     p \in BytesUpTo(MaxMessageSize + 1),
     k \in 0..(HeaderSize + MaxMessageSize + 1)}

\* the codec calls under test
CodecCalls ==
  [op : {"encode"}, t : MessageTypes, p : BytesUpTo(MaxMessageSize + 1),
   bytes : {<<>>}]
  \cup [op : {"decode"}, t : {0}, p : {<<>>}, bytes : DecodeInputs]
  \cup [op : {"roundtrip"}, t : MessageTypes, p : BytesUpTo(MaxMessageSize + 1),
        bytes : {<<>>, <<ProtocolVersion, MessageTypePing>>}]

codecFrame == <<netVars, sendVars, pipeVars, readVars, timedOut, codecIn,
                callVars>>

\* a call of EncodeMessage(t, p)
EncodeCall ==
  /\ codecIn.op = "encode"
  /\ ~codecOut.done
  /\ codecOut' = [done |-> TRUE, enc |-> EncodeMessage(codecIn.t, codecIn.p),
                  dec |-> NoDec]
  /\ UNCHANGED codecFrame

\* a call of DecodeMessage on a reader holding codecIn.bytes
DecodeCall ==
  /\ codecIn.op = "decode"
  /\ ~codecOut.done
  /\ codecOut' = [done |-> TRUE, enc |-> NoEnc,
                  dec |-> DecodeMessage(codecIn.bytes)]
  /\ UNCHANGED codecFrame

\* EncodeMessage(t, p), then DecodeMessage on a reader holding the frame
\* followed by codecIn.bytes
RoundTripCall ==
  /\ codecIn.op = "roundtrip"
  /\ ~codecOut.done
  /\ LET enc == EncodeMessage(codecIn.t, codecIn.p)
     IN codecOut' = [done |-> TRUE, enc |-> enc,
                     dec |-> IF enc.err = "none"
                               THEN DecodeMessage(enc.bytes \o codecIn.bytes)
                               ELSE NoDec]
  /\ UNCHANGED codecFrame

(* ----------------------------- WriteMessage ---------------------------- *)
\* no WriteMessage call made yet
NoWrite ==
  [pc |-> "idle", ret |-> "none", buf |-> <<>>, wire |-> <<>>, calls |-> 0,
   pieces |-> 0]

\* the WriteMessage calls under test
WriteCalls ==
  [op : {"write"}, t : MessageTypes, p : BytesUpTo(MaxMessageSize + 1),
   bytes : {<<>>}]

writeFrame == <<netVars, sendVars, pipeVars, readVars, timedOut, codecVars, client>>

\* a writer that reports success as soon as the transport took some bytes
AfterAccept_NoRetry(sent, total) == "returned"

\* conn.Write: the transport took sent of total bytes; Write goes on with
\* the remainder until every byte is taken
AfterAccept(sent, total) == IF sent = total THEN "returned" ELSE "writing"

\* WriteMessage(writer, t, p): EncodeMessage, then one writer.Write(encoded)
WriteMessageCall ==
  /\ codecIn.op = "write"
  /\ wmsg.pc = "idle"
  /\ LET enc == EncodeMessage(codecIn.t, codecIn.p)
     IN wmsg' = IF enc.err # "none"
                  THEN [wmsg EXCEPT !.pc = "returned", !.ret = "err"]
                  ELSE [wmsg EXCEPT !.pc = "writing", !.buf = enc.bytes,
                                    !.calls = @ + 1]
  /\ UNCHANGED writeFrame

\* inside writer.Write: the transport takes the next k bytes
TransportAccept(k) ==
  /\ wmsg.pc = "writing"
  /\ k \in 1..(Len(wmsg.buf) - Len(wmsg.wire))
  /\ LET sent == Len(wmsg.wire) + k
         pc == AfterAccept(sent, Len(wmsg.buf))
     IN wmsg' = [wmsg EXCEPT !.wire = SubSeq(wmsg.buf, 1, sent),
                             !.pieces = @ + 1,
                             !.pc = pc,
                             !.ret = IF pc = "returned" THEN "ok" ELSE @]
  /\ UNCHANGED writeFrame

\* inside writer.Write: the transport fails; Write returns the error and
\* WriteMessage returns it
TransportError ==
  /\ wmsg.pc = "writing"
  /\ wmsg' = [wmsg EXCEPT !.pc = "returned", !.ret = "err"]
  /\ UNCHANGED writeFrame

(* --------------------------- upstream client --------------------------- *)
\* no Client.SendRequest call
NoRequest ==
  [pc |-> "none", maxRetries |-> 0, delay |-> 0, attempt |-> 0, calls |-> 0,
   oks |-> 0, slept |-> <<>>, ret |-> "none", ctx |-> FALSE,
   last |-> [doErr |-> FALSE, readErr |-> FALSE, status |-> 0, parses |-> FALSE],
   lastOk |-> FALSE]

\* what the upstream does with one POST: httpClient.Do fails, or it answers
\* with a status and a body that can or cannot be read and parsed
Responses ==
  [doErr : {TRUE}, readErr : {FALSE}, status : {0}, parses : {FALSE}]
  \cup [doErr : {FALSE}, readErr : BOOLEAN,
        status : {199, 200, 204, 299, 300, 404, 500}, parses : BOOLEAN]

\* a client that does not look at the status code
sendRequestOnce_AnyStatus(rsp) ==
  IF rsp.doErr \/ rsp.readErr \/ ~rsp.parses THEN "err" ELSE "ok"

\* sendRequestOnce: Do, io.ReadAll, the status test, json.Unmarshal
sendRequestOnce(rsp) ==
  IF rsp.doErr THEN "err"
  ELSE IF rsp.readErr THEN "err"
  ELSE IF rsp.status < 200 \/ rsp.status >= 300 THEN "err"
  ELSE IF ~rsp.parses THEN "err"
  ELSE "ok"

\* a Client with any configuration, before SendRequest is called
ClientCalls ==
  [pc : {"idle"}, maxRetries : 0..MaxApiRetries, delay : 1..MaxRetryDelay,
   attempt : {0}, calls : {0}, oks : {0}, slept : {<<>>}, ret : {"none"},
   ctx : {FALSE}, last : {NoRequest.last}, lastOk : {FALSE}]

clientFrame == <<netVars, sendVars, pipeVars, readVars, timedOut, codecVars, wmsg>>

\* a client that waits the same delay before every retry
RetryWait_Constant(delay, attempt) == delay

\* time.After(c.config.RetryDelay * time.Duration(attempt))
RetryWait(delay, attempt) == delay * attempt

\* SendRequest: marshal, enter the loop with attempt = 0
ClientSendRequest ==
  /\ client.pc = "idle"
  /\ client' = [client EXCEPT !.pc = "attempt"]
  /\ UNCHANGED clientFrame

\* SendRequest: sendRequestOnce; on success return the response, on failure
\* attempt++ and either wait for the next attempt or leave the loop with the
\* final error
ClientAttempt ==
  /\ client.pc = "attempt"
  /\ \E rsp \in Responses :
       /\ client.ctx => rsp.doErr
       /\ client' =
            IF sendRequestOnce(rsp) = "ok"
              THEN [client EXCEPT !.calls = @ + 1, !.oks = @ + 1,
                                  !.last = rsp, !.lastOk = TRUE,
                                  !.pc = "returned", !.ret = "ok"]
            ELSE IF client.attempt + 1 <= client.maxRetries
              THEN [client EXCEPT !.calls = @ + 1, !.attempt = @ + 1,
                                  !.last = rsp, !.lastOk = FALSE,
                                  !.pc = "wait"]
            ELSE [client EXCEPT !.calls = @ + 1, !.attempt = @ + 1,
                                !.last = rsp, !.lastOk = FALSE,
                                !.pc = "returned", !.ret = "err"]
  /\ UNCHANGED clientFrame

\* SendRequest: the select before a retry; the timer fires, or the context
\* is done and ctx.Err() is returned
ClientWait ==
  /\ client.pc = "wait"
  /\ \/ client' = [client EXCEPT
                     !.slept = Append(@, RetryWait(client.delay, client.attempt)),
                     !.pc = "attempt"]
     \/ /\ client.ctx
        /\ client' = [client EXCEPT !.pc = "returned", !.ret = "ctx"]
  /\ UNCHANGED clientFrame

\* the caller's context is cancelled or its deadline passes
ClientCtxDone ==
  /\ client.pc \in {"attempt", "wait"}
  /\ ~client.ctx
  /\ client' = [client EXCEPT !.ctx = TRUE]
  /\ UNCHANGED clientFrame

(* ------------------------------ read loop ------------------------------ *)
\* the bytes of a frame as a client puts them on the wire
ClientFrame(v, ty, p) == <<v, ty>> \o PutUint32(Len(p)) \o <<0, 0>> \o p

\* the payloads a client sends: one of each length up to one byte too long
ClientPayloads == {[i \in 1..k |-> 1] : k \in 0..(MaxMessageSize + 1)}

\* the client writes one frame to its end of the connection
ClientWrite(s, v, ty, p) ==
  /\ sockState[s] = "open"
  /\ Len(cframes[s]) < MaxFrames
  /\ inbuf' = [inbuf EXCEPT ![s] = @ \o ClientFrame(v, ty, p)]
  /\ cframes' = [cframes EXCEPT ![s] =
                   Append(@, [version |-> v, type |-> ty, data |-> p])]
  /\ UNCHANGED <<netVars, sendVars, pipeVars, rcur, dispatched, timedOut,
                 codecVars, callVars>>

\* the bytes the io.ReadFull call in progress still waits for
Need(cur) ==
  IF Len(cur) < HeaderSize
    THEN HeaderSize - Len(cur)
    ELSE HeaderSize + Uint32(SubSeq(cur, 3, 6)) - Len(cur)

\* a stats update that sets LastActive and does not count the message
IncrementReceived_NoCount(port) ==
  IF port \in DOMAIN connInfo
    THEN [connInfo EXCEPT ![port] = [@ EXCEPT !.last = now]]
    ELSE connInfo

\* connMgr.IncrementReceived(clientPort)
IncrementReceived(port) ==
  IF port \in DOMAIN connInfo
    THEN [connInfo EXCEPT ![port] = [@ EXCEPT !.recv = @ + 1, !.last = now]]
    ELSE connInfo

\* connMgr.UpdateLastActive(clientPort), applied to the map info
UpdateLastActive(info, port) ==
  IF port \in DOMAIN info
    THEN [info EXCEPT ![port] = [@ EXCEPT !.last = now]]
    ELSE info

\* the type bytes a client puts in its frames: the five known types and one
\* unknown byte
UnknownType == 9
ClientTypes == MessageTypes \cup {UnknownType}

\* read loop: protocol.ReadMessage(conn) takes n more bytes from the socket.
\* With the header complete the version and size checks run; with the frame
\* complete the message is counted and dispatched by type: a request goes to
\* handleRequest, which only logs; a ping is answered with a pong, whose write
\* may fail; a pong updates LastActive; any other type is logged
HandlerRead(s, n) ==
  /\ hpc[s] = "loop" /\ sockState[s] = "open"
  /\ n \in 1..Len(inbuf[s])
  /\ n <= Need(rcur[s])
  /\ LET cur == rcur[s] \o SubSeq(inbuf[s], 1, n)
         res == DecodeMessage(cur)
     IN /\ inbuf' = [inbuf EXCEPT ![s] = SubSeq(@, n + 1, Len(@))]
        /\ IF res.err \in {"header", "data"}
             THEN /\ rcur' = [rcur EXCEPT ![s] = cur]
                  /\ UNCHANGED <<connInfo, hpc, written, dispatched>>
           ELSE IF res.err # "none"
             THEN /\ rcur' = [rcur EXCEPT ![s] = <<>>]
                  /\ hpc' = [hpc EXCEPT ![s] = "unregister"]
                  /\ UNCHANGED <<connInfo, written, dispatched>>
           ELSE /\ rcur' = [rcur EXCEPT ![s] = <<>>]
                /\ connInfo' = IF res.msg.type = MessageTypePong
                                  THEN UpdateLastActive(
                                         IncrementReceived(sockPort[s]), sockPort[s])
                                  ELSE IncrementReceived(sockPort[s])
                /\ dispatched' = [dispatched EXCEPT ![s] = Append(@, res.msg)]
                /\ IF res.msg.type = MessageTypePing
                     THEN \/ /\ written' = [written EXCEPT ![s] =
                                   Append(@, [type |-> "pong", job |-> NoJob])]
                             /\ UNCHANGED hpc
                          \/ /\ hpc' = [hpc EXCEPT ![s] = "unregister"]
                             /\ UNCHANGED written
                     ELSE UNCHANGED <<hpc, written>>
  /\ UNCHANGED <<connections, sockPort, sockState, now, srvVars, sendVars,
                 pipeVars, cframes, timedOut, codecVars, callVars>>

\* read loop: the read deadline expires before ReadMessage has its frame (a
\* Read after the deadline fails even with bytes waiting).  ReadMessage
\* returns the timeout wrapped by fmt.Errorf, the wrapper is no net.Error, so
\* the loop logs the error and returns; the bytes read so far are dropped
\* with the call
HandlerReadTimeout(s) ==
  /\ hpc[s] = "loop" /\ sockState[s] = "open"
  /\ rcur' = [rcur EXCEPT ![s] = <<>>]
  /\ timedOut' = [timedOut EXCEPT ![s] = TRUE]
  /\ hpc' = [hpc EXCEPT ![s] = "unregister"]
  /\ UNCHANGED <<regVars, sockPort, sockState, written, now, srvVars,
                 sendVars, pipeVars, inbuf, cframes, dispatched, codecVars,
                 callVars>>

(* ------------------- specification of the registry --------------------- *)
\* the state after construction, but for the database environment
InitState ==
  /\ connections = EmptyMap
  /\ connInfo = EmptyMap
  /\ sockPort = [s \in Socks |-> 0]
  /\ sockState = [s \in Socks |-> "unborn"]
  /\ hpc = [s \in Socks |-> "none"]
  /\ written = [s \in Socks |-> <<>>]
  /\ now = 0
  /\ srvCtx = FALSE
  /\ listenerOpen = TRUE
  /\ spc = "run"
  /\ apc = "run"
  /\ cpc = "run"
  /\ wpc = [w \in Workers |-> "idle"]
  /\ wport = [w \in Workers |-> 1]
  /\ wconn = [w \in Workers |-> NoSock]
  /\ wret = [w \in Workers |-> "none"]
  /\ wjob = [w \in Workers |-> NoJob]
  /\ writeFailed = {}
  /\ rows = [r \in RowIds |-> NoRow]
  /\ rowLock = [r \in RowIds |-> 0]
  /\ responses = [r \in RowIds |-> 0]
  /\ dpc = [d \in Drivers |-> "idle"]
  /\ batch = [d \in Drivers |-> <<>>]
  /\ polls = 0
  /\ dret = [d \in Drivers |-> "none"]
  /\ jobs = <<>>
  /\ jobsClosed = FALSE
  /\ poolCtx = FALSE
  /\ results = 0
  /\ resultsClosed = FALSE
  /\ rhpc = "run"
  /\ ppc = "run"
  /\ wexp = [w \in Workers |-> FALSE]
  /\ wmarked = [w \in Workers |-> FALSE]
  /\ wentry = [w \in Workers |-> 0]
  /\ wsucc = [w \in Workers |-> FALSE]
  /\ owed = 0
  /\ inbuf = [s \in Socks |-> <<>>]
  /\ rcur = [s \in Socks |-> <<>>]
  /\ cframes = [s \in Socks |-> <<>>]
  /\ dispatched = [s \in Socks |-> <<>>]
  /\ codecOut = [done |-> FALSE, enc |-> NoEnc, dec |-> NoDec]
  /\ timedOut = [s \in Socks |-> FALSE]
  /\ wmsg = NoWrite

\* the bridge on a database whose statements fail only for the caller's
\* context or a constraint
Init == InitState /\ dbFaults = FALSE /\ codecIn = NoCall /\ client = NoRequest

\* the bridge on a database on which any statement may fail
InitDbFaults ==
  InitState /\ dbFaults = TRUE /\ codecIn = NoCall /\ client = NoRequest

\* one codec call on any of the generated arguments
InitCodec ==
  InitState /\ dbFaults = FALSE /\ codecIn \in CodecCalls /\ client = NoRequest

\* one WriteMessage call on any of the generated arguments
InitWrite ==
  InitState /\ dbFaults = FALSE /\ codecIn \in WriteCalls /\ client = NoRequest

NextReg ==
  \/ \E s \in Socks, p \in Ports : AcceptConn(s, p)
  \/ \E s \in Socks : HandlerRegister(s)
  \/ \E s \in Socks : HandlerReadError(s)
  \/ \E s \in Socks : HandlerUnregister(s)
  \/ \E s \in Socks : HandlerClose(s)
  \/ CleanupStaleConnections
  \/ Tick
  \/ \E w \in Workers, p \in Ports : CallSendData(w, p)
  \/ \E w \in Workers : SendLookup(w)
  \/ \E w \in Workers : SendStats(w)
  \/ \E w \in Workers : SendWrite(w)
  \/ \E w \in Workers : SendEvict(w)

\* the registry under accepts, handlers, senders and the sweeper
SpecReg == Init /\ [][NextReg]_vars

(* ---------- specification of the registry with server shutdown --------- *)
NextSrv ==
  \/ NextReg
  \/ AcceptorExit
  \/ \E s \in Socks : HandlerShutdown(s)
  \/ CleanupExit
  \/ SrvStopCancel
  \/ SrvStopCloseListener
  \/ SrvStopCloseAll
  \/ SrvStopReturn

SpecSrv == Init /\ [][NextSrv]_vars

(* ------------------- specification of the pipeline --------------------- *)
\* one client (socket 1, remote port 1) connects and may go away; rows are
\* staged for its port; drivers poll and submit; the pool processes; Stop
NextPipe ==
  \/ \E s \in {1}, p \in {1} : AcceptConn(s, p)
  \/ \E s \in Socks : HandlerRegister(s)
  \/ \E s \in Socks : HandlerReadError(s)
  \/ \E s \in Socks : HandlerUnregister(s)
  \/ \E s \in Socks : HandlerClose(s)
  \/ \E k \in DataKinds : InsertRequest(1, k)
  \/ \E d \in Drivers : FetchPendingRequests(d)
  \/ \E d \in Drivers : FetchReturn(d)
  \/ \E d \in Drivers : DriverSubmit(d)
  \/ \E w \in Workers : WorkerDequeue(w)
  \/ \E w \in Workers : WorkerExitCtx(w)
  \/ \E w \in Workers : WorkerExitClosed(w)
  \/ \E w \in Workers : JobTimeout(w)
  \/ \E w \in Workers : ProcMarkSending(w)
  \/ \E w \in Workers : ProcSendRequest(w)
  \/ \E w \in Workers : ProcInsertResponse(w)
  \/ \E w \in Workers : SendLookup(w)
  \/ \E w \in Workers : SendStats(w)
  \/ \E w \in Workers : SendWrite(w)
  \/ \E w \in Workers : SendEvict(w)
  \/ \E w \in Workers : ProcMarkComplete(w)
  \/ \E w \in Workers : ProcDelete(w)
  \/ \E w \in Workers : HandleErrorMark(w)
  \/ \E w \in Workers : HandleErrorIncr(w)
  \/ \E w \in Workers : WorkerEmit(w)
  \/ ResultHandle
  \/ ResultHandlerExit
  \/ PoolStopCancel
  \/ PoolStopClose
  \/ PoolStopReturn

SpecPipe == Init /\ [][NextPipe]_vars

\* the pipeline on a database on which any statement may fail
SpecPipeDb == InitDbFaults /\ [][NextPipe]_vars

(* -------------------- specification of the read loop ------------------- *)
NextRead ==
  \/ \E s \in {1}, p \in {1} : AcceptConn(s, p)
  \/ \E s \in Socks : HandlerRegister(s)
  \/ \E s \in Socks, v \in {ProtocolVersion, 2},
        ty \in ClientTypes, p \in ClientPayloads : ClientWrite(s, v, ty, p)
  \/ \E s \in Socks, n \in 1..(HeaderSize + MaxMessageSize) : HandlerRead(s, n)
  \/ \E s \in Socks : HandlerReadTimeout(s)
  \/ \E s \in Socks : HandlerReadError(s)
  \/ \E s \in Socks : HandlerUnregister(s)
  \/ \E s \in Socks : HandlerClose(s)
  \/ Tick

\* one connection: the client writes frames, the handler reads them
SpecRead == Init /\ [][NextRead]_vars

(* --------------------- specification of the codec ---------------------- *)
NextCodec ==
  \/ EncodeCall
  \/ DecodeCall
  \/ RoundTripCall

\* EncodeMessage and DecodeMessage applied to the generated arguments
SpecCodec == InitCodec /\ [][NextCodec]_vars

(* ------------------------------ claims --------------------------------- *)
\* a SendData call that has returned the write-failure error
ReturnedWriteFailed(w) == wpc[w] = "sd_done" /\ wret[w] = "writefailed"

\* C4 as stated: whenever SendData(port, _) has returned a write-failure
\* error, a lookup of that port reports the port missing, also while other
\* goroutines register, unregister, send and sweep concurrently.
C4_LookupMissingAfterWriteFailed ==
  \A w \in Workers : ReturnedWriteFailed(w) => GetConnection(wport[w]) = NoSock

\* C4 amended: whenever SendData(port, _) has returned a write-failure error,
\* a lookup of that port never yields the socket whose write failed: the port
\* is missing or holds another socket, registered after the eviction; the
\* failed socket is registered under no port.
C4_FailedSocketEvicted ==
  \A w \in Workers :
    ReturnedWriteFailed(w) =>
      /\ GetConnection(wport[w]) # wconn[w]
      /\ \A p \in DOMAIN connections : connections[p] # wconn[w]

\* C4 witness: SendData has returned the write-failure error and the port is
\* missing
C4_Witness ==
  \E w \in Workers : ReturnedWriteFailed(w) /\ GetConnection(wport[w]) = NoSock

\* C5: once a write on a socket handle has failed inside SendData, no
\* goroutine obtains that handle from the registry any more (no GetConnection
\* inside SendData returns a handle whose write has already failed).
C5_NoHandleAfterFailedWrite ==
  [][\A w \in Workers :
       (wpc[w] = "sd_get" /\ wpc'[w] = "sd_stats") => wconn'[w] \notin writeFailed]_vars

\* C6: registry uniqueness: under every interleaving of Register, Unregister,
\* SendData, CleanupStaleConnections and CloseAll each port has at most one
\* entry: at most one socket, and a ConnectionInfo exactly when it has a socket.
C6_RegistryUnique ==
  /\ DOMAIN connections = DOMAIN connInfo
  /\ DOMAIN connections \subseteq Ports
  /\ \A p \in DOMAIN connections :
       Cardinality({s \in Socks : connections[p] = s}) = 1

\* C6 witness: a port that was registered, evicted and registered again by
\* another socket
C6_Witness ==
  \E p \in DOMAIN connections : \E s \in Socks :
    /\ sockPort[s] = p /\ sockState[s] = "closed" /\ s \in writeFailed
    /\ connections[p] # s /\ p \in DOMAIN connInfo

\* C7: Register on a port that is already registered returns an error and
\* leaves the existing entry untouched (same socket, same stats, socket not
\* closed); the handler whose Register failed then closes only its own socket
\* and neither unregisters nor closes the existing entry.
C7_DuplicateRegisterUntouched ==
  [][\A s \in Socks :
       /\ (hpc[s] = "register" /\ sockPort[s] \in DOMAIN connections
             /\ hpc'[s] # hpc[s])
            => /\ hpc'[s] = "regfail"
               /\ connections' = connections
               /\ connInfo' = connInfo
               /\ sockState' = sockState
       /\ (hpc[s] = "regfail" /\ hpc'[s] # hpc[s])
            => /\ hpc'[s] = "done"
               /\ connections' = connections
               /\ connInfo' = connInfo
               /\ sockState' = [sockState EXCEPT ![s] = "closed"]]_vars

\* C7 witness: a handler whose Register failed has closed its own socket and
\* the entry registered before is still there, its socket open
C7_Witness ==
  \E s \in Socks :
    /\ hpc[s] = "done" /\ sockState[s] = "closed"
    /\ sockPort[s] \in DOMAIN connections
    /\ connections[sockPort[s]] # s
    /\ sockState[connections[sockPort[s]]] = "open"
    /\ \A p \in DOMAIN connections : connections[p] # s
    /\ s \notin writeFailed

(* ------------------------- claims on the pipeline ---------------------- *)
\* the rows of the driver's fetched batch not yet handed to Submit
Holding(d) == Range(batch[d])

\* C1 (as stated): exclusive claim.  No row id is in the results of two
\* callers of FetchPendingRequests while the row is still unprocessed
\* (status pending): two drivers never hold the same pending row.
C1_ExclusiveClaim ==
  \A d1 \in Drivers, d2 \in Drivers :
    d1 # d2 =>
      \A r \in Holding(d1) \cap Holding(d2) : rows[r].st # "pending"

\* the Process run of worker w has returned
ProcessReturned(w) == wpc[w] = "emit"

\* C2 (as stated): terminal states.  When Process returns, a row that this
\* run moved to sending is deleted, or failed with retry_count strictly
\* greater than at entry.
C2_TerminalAfterProcess ==
  \A w \in Workers :
    (ProcessReturned(w) /\ wmarked[w]) =>
      \/ rows[wjob[w]].st = "deleted"
      \/ /\ rows[wjob[w]].st = "failed"
         /\ rows[wjob[w]].retry > wentry[w]

\* the number of response frames for row r written to socket s
RECURSIVE FramesFor(_, _)
FramesFor(q, r) ==
  IF q = <<>> THEN 0
  ELSE (IF Head(q).job = r THEN 1 ELSE 0) + FramesFor(Tail(q), r)

\* C3 (as stated): exactly-one delivery.  No client socket receives two
\* response frames for the same staged row.
C3_AtMostOneResponseFrame ==
  \A r \in RowIds, s \in Socks : FramesFor(written[s], r) <= 1

\* worker-pool step in which driver d's call of Submit returns
SubmitReturns(d) == dpc[d] = "submit" /\ batch'[d] # batch[d]

\* C8 (as stated): backpressure.  A Submit on a queue that holds QueueSize
\* jobs returns ErrQueueFull and leaves the queue unchanged.
C8_FullQueueReturnsQueueFull ==
  [][\A d \in Drivers :
       (SubmitReturns(d) /\ Len(jobs) >= QueueSize) =>
         (dret'[d] = "queuefull" /\ jobs' = jobs)]_vars

\* C8 (amended): a Submit on a full queue never enqueues the job; it returns
\* ErrQueueFull while the pool context is live, and once Stop has cancelled
\* the context it ends with the context's error or with the panic of a send
\* on the closed channel.
C8_FullQueueNeverEnqueues ==
  [][\A d \in Drivers :
       (SubmitReturns(d) /\ Len(jobs) >= QueueSize) =>
         /\ jobs' = jobs
         /\ ~poolCtx => dret'[d] = "queuefull"
         /\ poolCtx => dret'[d] \in {"canceled", "panic"}]_vars

\* C8 witness: a Submit on the full queue has returned ErrQueueFull
C8_Witness ==
  \E d \in Drivers :
    /\ dret[d] = "queuefull"
    /\ Len(jobs) = QueueSize
    /\ ~poolCtx

\* C9 (as stated): shutdown drains the queue.  When Stop has returned, every
\* job Submit accepted before Stop was called has been dequeued.
C9_StopDrainsQueue == ppc = "returned" => owed = 0

\* C10 (as stated): when Stop has returned, no row has status sending.
C10_NoSendingAfterStop ==
  ppc = "returned" => \A r \in RowIds : rows[r].st # "sending"

\* the step deletes row r from the staging table
Deletes(r) == rows[r].st # "deleted" /\ rows'[r].st = "deleted"

\* SendData failed in worker w's current Process run
SendFailed(w) == wjob[w] # NoJob /\ wret[w] \in {"missing", "writefailed"}

\* C11: deletion on success only.  A row is deleted only by a Process run in
\* which SendData for the row's client_port has returned success; a run whose
\* SendData reported the socket missing or the write failed is on the failure
\* path (handleError, then a non-success result) and never deletes.
C11_DeletionOnSuccessOnly ==
  [][(\A r \in RowIds :
        Deletes(r) =>
          \E w \in Workers :
            /\ wjob[w] = r /\ wpc[w] = "p10" /\ wpc'[w] = "emit"
            /\ wret[w] = "ok" /\ wport[w] = rows[r].port)
     /\
     (\A v \in Workers :
        SendFailed(v)' =>
          /\ wpc'[v] \in {"he_mark", "he_incr", "emit"}
          /\ ~wsucc'[v]
          /\ ~(wjob[v] = wjob'[v] /\ Deletes(wjob[v]) /\ wpc[v] # wpc'[v]))]_vars

\* C11 witness: a row has been deleted after its frame was delivered
C11_Witness ==
  \E r \in RowIds, s \in Socks :
    rows[r].st = "deleted" /\ FramesFor(written[s], r) >= 1

\* C12 (as stated): one failure, one retry increment.  When a Process run
\* returns a non-success result, the row is retained with status failed,
\* last_error set and retry_count exactly one above its value when the run
\* began.
C12_FailureMarksFailedOnce ==
  \A w \in Workers :
    (ProcessReturned(w) /\ ~wsucc[w]) =>
      /\ rows[wjob[w]].st = "failed"
      /\ rows[wjob[w]].err
      /\ rows[wjob[w]].retry = wentry[w] + 1

\* C13: retry_count never decreases while the row exists, whatever
\* repository operation the step performs.
C13_RetryMonotonic ==
  [][\A r \in RowIds :
       (RowExists(r) /\ RowExists(r)') => rows'[r].retry >= rows[r].retry]_vars

\* C13 witness: a row was marked (sending, then failed), counted one retry
\* and was claimed by a poll before
C13_Witness ==
  \E r \in RowIds :
    /\ RowExists(r) /\ rows[r].retry >= 1 /\ rows[r].st = "failed"
    /\ polls >= 1

\* the step is driver d's FetchPendingRequests statement
Fetches(d) == dpc[d] = "idle" /\ dpc'[d] = "fetch"

\* C14 (as stated): retry eligibility.  A poll returns every unlocked row
\* that the processor marked failed and whose retry_count is below the
\* ceiling (the rows never outnumber the batch limit here).
C14_FailedRowIsClaimedAgain ==
  [][\A d \in Drivers :
       Fetches(d) =>
         \A r \in RowIds :
           (rows[r].st = "failed" /\ rows[r].retry < MaxRetries
              /\ rowLock[r] = 0) => r \in Range(batch'[d])]_vars

\* C15 (as stated): retry ceiling.  A poll never returns a row whose
\* retry_count is at or above MaxRetries.
C15_NoClaimAtCeiling ==
  [][\A d \in Drivers :
       Fetches(d) =>
         \A r \in Range(batch'[d]) : rows[r].retry < MaxRetries]_vars

\* C16 (as stated): client gone.  When a Process run whose SendData found no
\* connection for the row's port returns, the result is non-success and the
\* row is retained as failed with last_error set and retry_count one above
\* its value at the start of the run.
C16_ClientGoneMarksFailed ==
  \A w \in Workers :
    (ProcessReturned(w) /\ wret[w] = "missing") =>
      /\ ~wsucc[w]
      /\ rows[wjob[w]].st = "failed"
      /\ rows[wjob[w]].err
      /\ rows[wjob[w]].retry = wentry[w] + 1

\* C17 (as stated): after a successful Process run whose reply was stored,
\* the row is gone from the staging table and the ResponseRecord remains.
C17_RowGoneRecordKept ==
  \A w \in Workers :
    (ProcessReturned(w) /\ wsucc[w] /\ responses[wjob[w]] >= 1) =>
      rows[wjob[w]].st = "deleted"

(* -------------------------- claims on the codec ------------------------ *)
\* C18: for every message type t and payload p of at most MaxMessageSize
\* bytes, the empty one included, DecodeMessage on the bytes EncodeMessage(t, p)
\* returns gives type t, Length = |p| and payload p, and takes exactly the
\* frame from the reader; EncodeMessage rejects a longer payload
C18_FrameRoundTrip ==
  (codecOut.done /\ codecIn.op \in {"roundtrip", "encode"}) =>
    IF Len(codecIn.p) > MaxMessageSize
      THEN codecOut.enc.err = "size"
      ELSE /\ codecOut.enc.err = "none"
           /\ codecIn.op = "roundtrip" =>
                /\ codecOut.dec.err = "none"
                /\ codecOut.dec.msg.type = codecIn.t
                /\ codecOut.dec.msg.length = Len(codecIn.p)
                /\ codecOut.dec.msg.data = codecIn.p
                /\ codecOut.dec.read = Len(codecOut.enc.bytes)

\* C18 witness: a frame with a payload of the largest size, followed by more
\* bytes, has been encoded and decoded
C18_Witness ==
  /\ codecOut.done
  /\ codecIn.op = "roundtrip"
  /\ Len(codecIn.p) = MaxMessageSize
  /\ codecIn.bytes # <<>>
  /\ codecOut.dec.err = "none"

\* the length field of a stream of at least eight bytes
C19_Length(in) == in[3] * 16777216 + in[4] * 65536 + in[5] * 256 + in[6]

\* C19: DecodeMessage fails when the stream ends before eight header bytes,
\* fails on a version other than 1, fails on a length above MaxMessageSize
\* having read the header only and made no payload buffer, and otherwise
\* reads exactly length payload bytes, failing when fewer are there
C19_ReaderRejections ==
  (codecOut.done /\ codecIn.op = "decode") =>
    LET in == codecIn.bytes
        d == codecOut.dec
    IN IF Len(in) < 8 THEN d.err = "header"
       ELSE IF in[1] # 1
         THEN d.err = "version" /\ d.read = 8 /\ d.alloc = 0
       ELSE IF C19_Length(in) > MaxMessageSize
         THEN d.err = "size" /\ d.read = 8 /\ d.alloc = 0
       ELSE IF Len(in) - 8 < C19_Length(in) THEN d.err = "data"
       ELSE /\ d.err = "none"
            /\ d.read = 8 + C19_Length(in)
            /\ Len(d.msg.data) = C19_Length(in)
            /\ d.msg.data = SubSeq(in, 9, 8 + C19_Length(in))

\* C19 witness: a header announcing too long a payload was rejected while
\* payload bytes were waiting in the stream
C19_Witness ==
  /\ codecOut.done
  /\ codecIn.op = "decode"
  /\ Len(codecIn.bytes) > 8
  /\ codecOut.dec.err = "size"

(* ------------------ specification of WriteMessage ---------------------- *)
NextWrite ==
  \/ WriteMessageCall
  \/ \E k \in 1..(HeaderSize + MaxMessageSize) : TransportAccept(k)
  \/ TransportError

\* WriteMessage on a transport that takes bytes piecewise or fails
SpecWrite == InitWrite /\ [][NextWrite]_vars

InitClient ==
  InitState /\ dbFaults = FALSE /\ codecIn = NoCall /\ client \in ClientCalls

NextClient ==
  \/ ClientSendRequest
  \/ ClientAttempt
  \/ ClientWait
  \/ ClientCtxDone

SpecClient == InitClient /\ [][NextClient]_vars

C32_UpstreamSuccessCriterion ==
  /\ client.calls >= 1 =>
       (client.lastOk <=>
          /\ ~client.last.doErr /\ ~client.last.readErr
          /\ client.last.status \in 200..299
          /\ client.last.parses)
  /\ client.ret = "ok" => client.lastOk
  /\ client.ret = "err" => ~client.lastOk /\ client.oks = 0

\* C32 witness: after a failed attempt, SendRequest returned the success of
\* an attempt answered with status 299
C32_Witness ==
  /\ client.ret = "ok"
  /\ client.calls >= 2
  /\ client.last.status = 299

(* ------------------------ claims on the read loop ---------------------- *)
\* the messages ms are, in order, the first frames of fs, each whole
FramePrefix(ms, fs) ==
  /\ Len(ms) <= Len(fs)
  /\ \A i \in 1..Len(ms) :
       /\ ms[i].type = fs[i].type
       /\ ms[i].data = fs[i].data
       /\ ms[i].length = Len(fs[i].data)

\* the read deadline of socket s expires with part of a frame read
DeadlineExpiresPartway(s) ==
  /\ hpc[s] = "loop"
  /\ rcur[s] # <<>>
  /\ rcur'[s] = <<>>
  /\ inbuf' = inbuf

C22_ReadTimeoutPingsAndStays ==
  [][\A s \in Socks :
       (timedOut'[s] /\ ~timedOut[s]) =>
         /\ hpc'[s] = "loop"
         /\ RegisterExists(sockPort[s])'
         /\ Len(written'[s]) = Len(written[s]) + 1
         /\ written'[s][Len(written'[s])].type = "ping"]_vars

\* the read loop of socket s dispatches a message in this step
Dispatches(s) == Len(dispatched'[s]) = Len(dispatched[s]) + 1

\* the message the read loop of socket s dispatches in this step
DispatchedMsg(s) == dispatched'[s][Len(dispatched'[s])]

\* C23: a received ping is answered with exactly one pong on the same socket
\* (or the handler leaves when that write fails); a received pong refreshes
\* the entry's last_active and received counter and writes nothing; a frame
\* of any other type that is not a request writes nothing and leaves the
\* connection open, registered and being read
C23_FrameDispatch ==
  [][\A s \in Socks :
       Dispatches(s) =>
         LET ty == DispatchedMsg(s).type
             port == sockPort[s]
         IN /\ ty = MessageTypePing =>
                 \/ /\ written'[s] = Append(written[s], [type |-> "pong", job |-> NoJob])
                    /\ hpc'[s] = "loop"
                 \/ /\ written'[s] = written[s]
                    /\ hpc'[s] = "unregister"
            /\ ty = MessageTypePong =>
                 /\ written' = written
                 /\ hpc'[s] = "loop"
                 /\ port \in DOMAIN connInfo =>
                      /\ connInfo'[port].last = now
                      /\ connInfo'[port].recv = connInfo[port].recv + 1
                      /\ connInfo'[port].sent = connInfo[port].sent
            /\ ty \notin {MessageTypePing, MessageTypePong, MessageTypeRequest} =>
                 /\ written' = written
                 /\ hpc'[s] = "loop"
                 /\ connections' = connections
                 /\ sockState' = sockState]_vars

\* C23 witness: after the clock moved on, a pong and then a frame of an
\* unknown type were dispatched on a socket that is still registered and read
C23_Witness ==
  \E s \in Socks :
    /\ Len(dispatched[s]) = 2
    /\ dispatched[s][1].type = MessageTypePong
    /\ dispatched[s][2].type = UnknownType
    /\ hpc[s] = "loop"
    /\ sockPort[s] \in DOMAIN connInfo
    /\ connInfo[sockPort[s]].last = MaxTime
    /\ connInfo[sockPort[s]].recv = 2

\* C24: each request frame dispatched on a registered socket stages exactly
\* one new row: status pending, retry_count 0, client_port the socket's port
C24_RequestFrameStagesJob ==
  [][\A s \in Socks :
       (Dispatches(s) /\ DispatchedMsg(s).type = MessageTypeRequest) =>
         \E r \in RowIds :
           /\ rows[r] = NoRow
           /\ rows'[r].st = "pending"
           /\ rows'[r].retry = 0
           /\ rows'[r].port = sockPort[s]
           /\ \A q \in RowIds \ {r} : rows'[q] = rows[q]]_vars

(* ------------------- further claims on the registry -------------------- *)
\* C25: at every instant the number of registered connections is at most
\* max_connections, however the acceptor's limit check and the handlers'
\* Register calls interleave
C25_ConnectionCap == Count <= MaxConnections

\* C26: a CleanupStaleConnections(max_idle) run closes and removes exactly
\* the entries with now - last_active > max_idle; every other entry stays
\* registered with its socket, its socket's state and its stats unchanged
C26_SweepEvictsExactlyStale ==
  [][CleanupStaleConnections =>
       \A p \in DOMAIN connections :
         IF now - connInfo[p].last > MaxIdleTime
           THEN /\ p \notin DOMAIN connections'
                /\ p \notin DOMAIN connInfo'
                /\ sockState'[connections[p]] = "closed"
           ELSE /\ p \in DOMAIN connections' /\ p \in DOMAIN connInfo'
                /\ connections'[p] = connections[p]
                /\ connInfo'[p] = connInfo[p]
                /\ sockState'[connections[p]] = sockState[connections[p]]]_vars

\* C26 witness: with no write ever failed, a socket whose handler is still
\* reading has been closed and removed by the sweeper while another entry,
\* active at the current time, is registered with its socket open
C26_Witness ==
  /\ writeFailed = {}
  /\ \E s \in Socks :
       /\ hpc[s] = "loop" /\ sockState[s] = "closed"
       /\ sockPort[s] \notin DOMAIN connections
  /\ \E q \in DOMAIN connections :
       /\ sockState[connections[q]] = "open"
       /\ connInfo[q].last = now
       /\ now = MaxTime

\* the effect the claim gives Unregister(p)
UnregisterEffect(p) ==
  IF p \in DOMAIN connections
    THEN /\ sockState' = [sockState EXCEPT ![connections[p]] = "closed"]
         /\ DOMAIN connections' = DOMAIN connections \ {p}
         /\ DOMAIN connInfo' = DOMAIN connInfo \ {p}
         /\ \A q \in DOMAIN connections' :
              connections'[q] = connections[q] /\ connInfo'[q] = connInfo[q]
    ELSE connections' = connections /\ connInfo' = connInfo /\ sockState' = sockState

\* C27: Unregister(port) on a registered port closes its socket and removes
\* the entry; on a port that is not registered (never was, or was removed
\* before) it changes nothing; no other port's entry is touched.  Checked on
\* both callers: the handler's deferred Unregister and SendData's eviction
C27_UnregisterIdempotent ==
  [][/\ \A s \in Socks :
          (hpc[s] = "unregister" /\ hpc'[s] = "close") => UnregisterEffect(sockPort[s])
     /\ \A w \in Workers :
          (wpc[w] = "sd_evict" /\ wpc'[w] # "sd_evict") => UnregisterEffect(wport[w])]_vars

\* C27 witness: the only socket ever accepted was unregistered twice on its
\* port, once by SendData after a failed write and once by its handler
C27_Witness ==
  \E w \in Workers : \E s \in Socks :
    /\ wpc[w] = "sd_done" /\ wret[w] = "writefailed" /\ wconn[w] = s
    /\ hpc[s] \in {"close", "done"}
    /\ \A u \in Socks \ {s} : sockState[u] = "unborn"

C30_NoResponseForFailedJob ==
  \A w \in Workers :
    (ProcessReturned(w) /\ ~wsucc[w]) =>
      \A s \in Socks : FramesFor(written[s], wjob[w]) = 0

C34_SubmitAfterStopRefused ==
  [][\A d \in Drivers :
       (SubmitReturns(d) /\ poolCtx /\ jobsClosed) =>
         /\ dret'[d] \in {"canceled", "queuefull"}
         /\ jobs' = jobs]_vars

\* C35: removing an entry by port closes and removes only the connection
\* the remover acts on: the eviction after SendData's failed write on socket
\* s touches no socket other than s, and a handler's deferred Unregister
\* touches no socket other than its own
C35_RemoveOnlyOwnEntry ==
  [][/\ \A w \in Workers :
          (wpc[w] = "sd_evict" /\ wpc'[w] # "sd_evict") =>
            /\ \A u \in Socks \ {wconn[w]} : sockState'[u] = sockState[u]
            /\ \A p \in DOMAIN connections :
                 connections[p] # wconn[w] => p \in DOMAIN connections'
     /\ \A s \in Socks :
          (hpc[s] = "unregister" /\ hpc'[s] = "close") =>
            /\ \A u \in Socks \ {s} : sockState'[u] = sockState[u]
            /\ \A p \in DOMAIN connections :
                 connections[p] # s => p \in DOMAIN connections']_vars

(* ------------- specification of the pipeline with two clients ---------- *)
\* clients connect under either port and may go away; rows are staged for
\* either port; the drivers poll and submit; the pool processes
NextRoute ==
  \/ \E s \in Socks, p \in Ports : AcceptConn(s, p)
  \/ \E s \in Socks : HandlerRegister(s)
  \/ \E s \in Socks : HandlerReadError(s)
  \/ \E s \in Socks : HandlerUnregister(s)
  \/ \E s \in Socks : HandlerClose(s)
  \/ \E p \in Ports : InsertRequest(p, "good")
  \/ \E d \in Drivers : FetchPendingRequests(d)
  \/ \E d \in Drivers : FetchReturn(d)
  \/ \E d \in Drivers : DriverSubmit(d)
  \/ \E w \in Workers : WorkerDequeue(w)
  \/ \E w \in Workers : ProcMarkSending(w)
  \/ \E w \in Workers : ProcSendRequest(w)
  \/ \E w \in Workers : ProcInsertResponse(w)
  \/ \E w \in Workers : SendLookup(w)
  \/ \E w \in Workers : SendStats(w)
  \/ \E w \in Workers : SendWrite(w)
  \/ \E w \in Workers : SendEvict(w)
  \/ \E w \in Workers : ProcMarkComplete(w)
  \/ \E w \in Workers : ProcDelete(w)
  \/ \E w \in Workers : HandleErrorMark(w)
  \/ \E w \in Workers : HandleErrorIncr(w)
  \/ \E w \in Workers : WorkerEmit(w)
  \/ ResultHandle

SpecRoute == Init /\ [][NextRoute]_vars

\* C36: a response frame is written only by a worker that holds a job, only
\* to the socket looked up under the client_port of that job's row, which has
\* that port as its own and is still the socket registered under it at the
\* moment of the write, and the frame written is the one frame of that job
C36_Routing ==
  [][\A s \in Socks :
       written'[s] # written[s] =>
         \E w \in Workers :
           /\ wpc[w] = "sd_write" /\ wpc'[w] = "p9"
           /\ wjob[w] # NoJob
           /\ wport[w] = rows[wjob[w]].port
           /\ wconn[w] = s
           /\ sockPort[s] = wport[w]
           /\ wport[w] \in DOMAIN connections /\ connections[wport[w]] = s
           /\ written'[s] = Append(written[s], [type |-> "response", job |-> wjob[w]])
           /\ \A u \in Socks \ {s} : written'[u] = written[u]]_vars

\* C36 witness: with sockets registered under both ports, the frame of a job
\* staged for the second port has been written to the socket of that port
C36_Witness ==
  /\ Cardinality(DOMAIN connections) = 2
  /\ \E s \in Socks, r \in RowIds :
       /\ sockPort[s] = 2 /\ rows[r].port = 2
       /\ written[s] = <<[type |-> "response", job |-> r]>>

\* C37: while Stop has not been called, the queue changes only by a Submit
\* that returns nil appending its one job or by exactly one idle worker
\* taking the head; a worker enters Process only with the job it took off the
\* queue in that step, so no accepted job is dropped and none is handed to
\* two workers; at most QueueSize jobs wait and at most PoolSize execute
C37_EachJobProcessedOnce ==
  [][ppc = "run" =>
       /\ Len(jobs) <= QueueSize /\ Len(jobs') <= QueueSize
       /\ Cardinality({w \in Workers : wpc'[w] \in ProcessPcs}) <= PoolSize
       /\ jobs' # jobs =>
            \/ \E d \in Drivers :
                 /\ dpc[d] = "submit" /\ dret'[d] = "nil"
                 /\ jobs' = Append(jobs, Head(batch[d]))
                 /\ wpc' = wpc /\ wjob' = wjob
            \/ /\ jobs # <<>> /\ jobs' = Tail(jobs)
               /\ \E w \in Workers :
                    /\ wpc[w] = "idle" /\ wpc'[w] = "p1" /\ wjob'[w] = Head(jobs)
                    /\ \A u \in Workers \ {w} : wpc'[u] = wpc[u] /\ wjob'[u] = wjob[u]
       /\ \A d \in Drivers :
            (dpc[d] = "submit" /\ dret'[d] = "nil" /\ batch'[d] # batch[d]) =>
               jobs' = Append(jobs, Head(batch[d]))
       /\ \A w \in Workers :
            (wpc'[w] = "p1" /\ wpc[w] # "p1") =>
               /\ wpc[w] = "idle" /\ jobs # <<>>
               /\ wjob'[w] = Head(jobs) /\ jobs' = Tail(jobs)]_vars

\* C37 witness: before Stop, every worker is executing Process on a job it
\* dequeued, both submissions having been accepted
C37_Witness ==
  /\ ppc = "run"
  /\ \A w \in Workers : wpc[w] \in ProcessPcs /\ wjob[w] # NoJob
  /\ \A d \in Drivers : dret[d] = "nil"

(* -------- specification of the read loop beside another connection ----- *)
\* two connections; the client of the first writes frames, well-formed, of
\* another version or too long, and may break off; the second stays connected
NextFraming ==
  \/ \E s \in Socks, p \in Ports : AcceptConn(s, p)
  \/ \E s \in Socks : HandlerRegister(s)
  \/ \E v \in {ProtocolVersion, 2}, p \in ClientPayloads :
        ClientWrite(1, v, MessageTypeRequest, p)
  \/ \E s \in Socks, n \in 1..(HeaderSize + MaxMessageSize) : HandlerRead(s, n)
  \/ \E s \in {1} : HandlerReadError(s)
  \/ \E s \in Socks : HandlerUnregister(s)
  \/ \E s \in Socks : HandlerClose(s)

SpecFraming == Init /\ [][NextFraming]_vars

\* C31: a read that completes a header of another version or with a length
\* over the maximum, and a read that breaks off, send the handler to its
\* deferred Unregister without touching the registry or any socket; the
\* Unregister removes the handler's own port and leaves every entry under
\* another port and its socket as they are; the Close closes the handler's
\* own socket only
C31_FramingErrorLocal ==
  [][\A s \in Socks :
       LET n == Len(inbuf[s]) - Len(inbuf'[s])
           cur == rcur[s] \o SubSeq(inbuf[s], 1, n)
           others == (DOMAIN connections) \ {sockPort[s]}
       IN /\ (hpc[s] = "loop" /\ n > 0 /\ DecodeMessage(cur).err \in {"version", "size"})
               => hpc'[s] = "unregister"
          /\ (hpc[s] = "loop" /\ hpc'[s] # "loop")
               => /\ hpc'[s] = "unregister"
                  /\ connections' = connections /\ connInfo' = connInfo
                  /\ sockState' = sockState
          /\ (hpc[s] = "unregister" /\ hpc'[s] # "unregister")
               => /\ hpc'[s] = "close"
                  /\ sockPort[s] \notin DOMAIN connections'
                  /\ \A q \in others :
                       /\ q \in DOMAIN connections' /\ connections'[q] = connections[q]
                       /\ q \in DOMAIN connInfo' /\ connInfo'[q] = connInfo[q]
                       /\ sockState'[connections[q]] = sockState[connections[q]]
          /\ (hpc[s] = "close" /\ hpc'[s] # "close")
               => /\ hpc'[s] = "done"
                  /\ connections' = connections /\ connInfo' = connInfo
                  /\ \A u \in Socks \ {s} : sockState'[u] = sockState[u]]_vars

\* C31 witness: the first connection's handler has read the header of a
\* frame that is too long and has exited with its socket closed and its port
\* removed, while the second connection is registered under the other port
\* with its socket open
C31_Witness ==
  /\ Len(cframes[1]) = 1 /\ Len(cframes[1][1].data) > MaxMessageSize
  /\ cframes[1][1].version = ProtocolVersion
  /\ inbuf[1] = cframes[1][1].data
  /\ hpc[1] = "done" /\ sockState[1] = "closed"
  /\ sockPort[1] # sockPort[2]
  /\ sockPort[1] \notin DOMAIN connections
  /\ GetConnection(sockPort[2]) = 2 /\ sockState[2] = "open" /\ hpc[2] = "loop"

(* ------------- server shutdown under a fair scheduler ------------------ *)
\* every goroutine of the server that can take its next step takes it: the
\* acceptor's Accept has a one second deadline and fails on the closed
\* listener, the sweeper selects on the context, a handler tests the context
\* at the top of every iteration and its read ends with the read deadline at
\* the latest, the deferred calls and the steps of Stop do not block
SrvFairness ==
  /\ WF_vars(AcceptorExit)
  /\ WF_vars(CleanupExit)
  /\ \A s \in Socks : WF_vars(HandlerRegister(s))
  /\ \A s \in Socks : WF_vars(HandlerShutdown(s))
  /\ \A s \in Socks : WF_vars(HandlerUnregister(s))
  /\ \A s \in Socks : WF_vars(HandlerClose(s))
  /\ WF_vars(SrvStopCloseListener)
  /\ WF_vars(SrvStopCloseAll)
  /\ WF_vars(SrvStopReturn)

\* the goroutines of the server alone: acceptor, handlers, sweeper and Stop
NextStop ==
  \/ \E s \in Socks, p \in Ports : AcceptConn(s, p)
  \/ \E s \in Socks : HandlerRegister(s)
  \/ \E s \in Socks : HandlerReadError(s)
  \/ \E s \in Socks : HandlerShutdown(s)
  \/ \E s \in Socks : HandlerUnregister(s)
  \/ \E s \in Socks : HandlerClose(s)
  \/ CleanupStaleConnections
  \/ Tick
  \/ AcceptorExit
  \/ CleanupExit
  \/ SrvStopCancel
  \/ SrvStopCloseListener
  \/ SrvStopCloseAll
  \/ SrvStopReturn

SpecSrvFair == Init /\ [][NextStop]_vars /\ SrvFairness

\* C39: once Stop has cancelled the context it returns, which needs the
\* acceptor, the sweeper and every handler to have exited; from then on the
\* registry is empty, every accepted socket is closed and no handler is left
\* to register one
C39_ShutdownCompletes ==
  /\ (spc = "cancelled") ~> (spc = "returned")
  /\ [](spc = "returned" =>
          /\ Count = 0 /\ connInfo = EmptyMap
          /\ apc = "exited" /\ cpc = "exited"
          /\ \A s \in Socks : /\ sockState[s] \in {"unborn", "closed"}
                              /\ hpc[s] \in {"none", "done"})

\* C39 witness: Stop is in wg.Wait after CloseAll, and a connection that was
\* accepted but not registered when CloseAll ran is registered now, its
\* socket open
C39_Witness ==
  /\ spc = "wait"
  /\ \E s \in Socks :
       /\ hpc[s] = "loop" /\ sockState[s] = "open"
       /\ GetConnection(sockPort[s]) = s

(* --------------- pool shutdown under a fair scheduler ------------------ *)
\* the pool with one driver feeding it and no client connected
NextPool ==
  \/ \E k \in DataKinds : InsertRequest(1, k)
  \/ \E d \in {1} : FetchPendingRequests(d)
  \/ \E d \in {1} : FetchReturn(d)
  \/ \E d \in {1} : DriverSubmit(d)
  \/ \E w \in Workers : WorkerDequeue(w)
  \/ \E w \in Workers : WorkerExitCtx(w)
  \/ \E w \in Workers : WorkerExitClosed(w)
  \/ \E w \in Workers : ProcMarkSending(w)
  \/ \E w \in Workers : ProcSendRequest(w)
  \/ \E w \in Workers : ProcInsertResponse(w)
  \/ \E w \in Workers : SendLookup(w)
  \/ \E w \in Workers : HandleErrorMark(w)
  \/ \E w \in Workers : HandleErrorIncr(w)
  \/ \E w \in Workers : WorkerEmit(w)
  \/ ResultHandle
  \/ ResultHandlerExit
  \/ PoolStopCancel
  \/ PoolStopClose
  \/ PoolStopReturn

\* a goroutine of the pool that can take its next step takes it; every step
\* of Process returns once the job's context is done (the repository and the
\* upstream client are called with that context)
PoolFairness ==
  /\ \A w \in Workers :
       /\ WF_vars(WorkerExitCtx(w))
       /\ WF_vars(WorkerExitClosed(w))
       /\ WF_vars(ProcMarkSending(w))
       /\ WF_vars(ProcSendRequest(w))
       /\ WF_vars(ProcInsertResponse(w))
       /\ WF_vars(SendLookup(w))
       /\ WF_vars(HandleErrorMark(w))
       /\ WF_vars(HandleErrorIncr(w))
       /\ WF_vars(WorkerEmit(w))
  /\ WF_vars(ResultHandlerExit)
  /\ WF_vars(PoolStopClose)
  /\ WF_vars(PoolStopReturn)

SpecPoolFair == Init /\ [][NextPool]_vars /\ PoolFairness

\* C38: once Stop has cancelled the context, every worker and the result
\* handler exit and Stop returns
C38_StopTerminates ==
  (ppc = "cancelled") ~>
     (ppc = "returned" /\ rhpc = "exited" /\ \A w \in Workers : wpc[w] = "exited")

\* C38 witness: Stop waits, the result handler has exited with the results
\* channel full, and a worker is about to send its result
C38_Witness ==
  /\ ppc = "wait" /\ rhpc = "exited" /\ results = QueueSize
  /\ \E w \in Workers : wpc[w] = "emit"

====
